---- MODULE Spec2Model ----
(***************************************************************************)
(* chuk-mcp-vfs: the orchestration layer over the namespace store, the     *)
(* virtual-filesystem engine and the snapshot engine.                      *)
(*                                                                         *)
(* WorkspaceManager instances (manager 0 and its peers) share one          *)
(* ArtifactStore.  Every caller is an asyncio task; a task runs without    *)
(* interruption up to its next await of an external engine, so each action *)
(* below is one such uninterrupted segment of a handler.                   *)
(*                                                                         *)
(* A path is the sequence of its segments: "/" is << >>, "/a/b" is         *)
(* <<"a", "b">>.  A name is a sequence of one-character strings.           *)
(***************************************************************************)
EXTENDS Integers, Sequences, FiniteSets, TLC

\* ------------------------------------------------------------------ bounds
NumLocal == 2
NumPeers == 2
MaxNs == 3
MaxDepth == 2
MaxResults == 2
MaxTreeDepth == 2
MaxPathLen == 3
MaxToolNs == 2

Names == {"a", "b"}
NsIds == 1..MaxNs

None == 0
NoTask == <<>>
Root == <<>>

Mgrs == 0..NumPeers
LocalTasks == {<<0, i>> : i \in 1..NumLocal}
PeerTasks == {<<p, 1>> : p \in 1..NumPeers}
Tasks == LocalTasks \cup PeerTasks
MgrOf(t) == t[1]

VARIABLES
  nsStore,      \* ArtifactStore: the allocated namespaces, records [id, name, type]
  nextNs,       \* ArtifactStore: the next namespace id it issues
  tracked,      \* per manager: _namespace_to_info, an insertion-ordered dict
  cur,          \* per manager: _current_namespace_id
  initialized,  \* per manager: _initialized
  lock,         \* per manager: _lock, [holder, waiters]
  pc,           \* per task: where the task is suspended
  loc,          \* per task: the locals of the suspended handler
  call,         \* per task: the call it is in or has last completed, and its result
  fs,           \* per namespace: the file tree of its VFS, path -> "dir" or content
  snap,         \* CheckpointManager._snapshot_managers, by workspace name
  script,       \* the progress of a caller's write/checkpoint/write/restore/read run
  found,        \* the last find: its request and its response
  reply         \* the last grep, tree, rm or read: its request and its response

wsvars == <<nsStore, nextNs, tracked, cur, initialized, lock>>
ckvars == <<snap, script>>
vars == <<nsStore, nextNs, tracked, cur, initialized, lock, pc, loc, call, fs,
          snap, script, found, reply>>
outvars == <<found, reply>>

\* ------------------------------------------------------ ordered dictionary
\* A Python dict keyed by namespace id: a sequence of records in insertion order.
Has(d, k) == \E i \in DOMAIN d : d[i].id = k

DictGet(d, k) == d[CHOOSE i \in DOMAIN d : d[i].id = k]

DictSet(d, rec) ==
  IF Has(d, rec.id)
  THEN [i \in DOMAIN d |-> IF d[i].id = rec.id THEN rec ELSE d[i]]
  ELSE Append(d, rec)

DictDel(d, k) == SelectSeq(d, LAMBDA r : r.id # k)

\* next(iter(d.keys()))
FirstKey(d) == d[1].id

\* `for nid, info in d.items(): if info.name == name: ...`: the first match
FindByName(d, n) ==
  IF \E i \in DOMAIN d : d[i].name = n
  THEN d[CHOOSE i \in DOMAIN d :
           d[i].name = n /\ \A j \in DOMAIN d : d[j].name = n => i <= j].id
  ELSE None

\* ------------------------------------------------------- workspace records
WorkspaceInfo(id, n) ==
  [id |-> id, name |-> n, current_path |-> Root,
   is_mounted |-> FALSE, mount_point |-> None]

\* a path as a caller gives it: "/d/e" is [abs |-> TRUE, segs |-> <<d, e>>]
RootPath == [abs |-> TRUE, segs |-> Root]

Called(op, n, p, r) == [op |-> op, name |-> n, path |-> p, res |-> r]
NoCall == Called("none", "", RootPath, "none")
\* `before` is what the manager held when the call was made
NoBefore == [tracked |-> <<>>, cur |-> None, initialized |-> FALSE]
NoLoc == [name |-> "", ns |-> None, err |-> FALSE, path |-> Root, node |-> "none",
          before |-> NoBefore]

\* a check that never finds the name
NameExistsNever(d, n) == FALSE

\* list_workspaces() then `if ws.name == name`
NameExists(d, n) == \E i \in DOMAIN d : d[i].name = n

\* ------------------------------------------------------------ the store
\* list_namespaces returns the allocated namespaces in an order the store chooses.
Listings(S) ==
  {s \in [1..Cardinality(S) -> S] : \A i, j \in DOMAIN s : s[i] = s[j] => i = j}

\* ------------------------------------------------------------ the manager
\* a loop that looks at the name only
SkippedNameless(ns) == ns.name = ""

\* the two `continue` of the loop: another type, or no name
Skipped(ns) == ns.type # "WORKSPACE" \/ ns.name = ""

RECURSIVE SyncLoop(_, _)
SyncLoop(d, listing) ==
  IF listing = <<>> THEN d
  ELSE LET ns == Head(listing) IN
       IF Skipped(ns)
       THEN SyncLoop(d, Tail(listing))
       ELSE SyncLoop(DictSet(d, WorkspaceInfo(ns.id, ns.name)), Tail(listing))

\* _sync_namespaces: the manager's fields after the call
SyncNamespaces(m, listing) ==
  IF initialized[m]
  THEN [tracked |-> tracked[m], cur |-> cur[m]]
  ELSE LET d == SyncLoop(tracked[m], listing) IN
       [tracked |-> d,
        cur |-> IF d # <<>> /\ cur[m] = None THEN FirstKey(d) ELSE cur[m]]

SyncListings(m) == IF initialized[m] THEN {<<>>} ELSE Listings(nsStore)

\* a lock that never makes a caller wait
LockFreeAlways(m) == TRUE

\* asyncio.Lock.acquire returns at once on a free lock nobody waits for
LockFree(m) == lock[m].holder = NoTask /\ lock[m].waiters = <<>>

\* asyncio.Lock.release wakes the first waiter, which then owns the lock
LockWoken(t) ==
  /\ lock[MgrOf(t)].holder = NoTask
  /\ lock[MgrOf(t)].waiters # <<>>
  /\ Head(lock[MgrOf(t)].waiters) = t

\* a lock that its holder never gives back
ReleasedNever(m, waiters) == [lock EXCEPT ![m].waiters = waiters]

Released(m, waiters) == [lock EXCEPT ![m] = [holder |-> NoTask, waiters |-> waiters]]
Held(m, t, waiters) == [lock EXCEPT ![m] = [holder |-> t, waiters |-> waiters]]

Finish(t, op, n, r) ==
  /\ pc' = [pc EXCEPT ![t] = "idle"]
  /\ loc' = [loc EXCEPT ![t] = NoLoc]
  /\ call' = [call EXCEPT ![t] = Called(op, n, RootPath, r)]

Suspend(t, at, op, n, ns, err) ==
  /\ pc' = [pc EXCEPT ![t] = at]
  /\ loc' = [loc EXCEPT ![t] =
       [NoLoc EXCEPT !.name = n, !.ns = ns, !.err = err,
                     !.before = IF pc[t] = "idle"
                                THEN [tracked |-> tracked[MgrOf(t)], cur |-> cur[MgrOf(t)],
                                      initialized |-> initialized[MgrOf(t)]]
                                ELSE loc[t].before]]
  /\ call' = [call EXCEPT ![t] = Called(op, n, RootPath, "pending")]

\* create_workspace, from the lock being taken to the await of create_namespace
CreateLocked(t, n, waiters) ==
  LET m == MgrOf(t) IN
  \E listing \in SyncListings(m) :
    LET s == SyncNamespaces(m, listing) IN
    /\ tracked' = [tracked EXCEPT ![m] = s.tracked]
    /\ cur' = [cur EXCEPT ![m] = s.cur]
    /\ initialized' = [initialized EXCEPT ![m] = TRUE]
    /\ IF NameExists(s.tracked, n)
       THEN /\ Finish(t, "create", n, "NameConflict")
            /\ lock' = Released(m, waiters)
       ELSE /\ Suspend(t, "create_ns", "create", n, None, FALSE)
            /\ lock' = Held(m, t, waiters)
    /\ UNCHANGED <<nsStore, nextNs, fs>>

\* a caller that finds the lock taken queues behind it
Enqueue(t, at, op, n) ==
  /\ lock' = [lock EXCEPT ![MgrOf(t)].waiters = Append(@, t)]
  /\ Suspend(t, at, op, n, None, FALSE)
  /\ UNCHANGED <<nsStore, nextNs, tracked, cur, initialized, fs>>

CreateWorkspace(t, n) ==
  /\ pc[t] = "idle"
  /\ IF LockFree(MgrOf(t))
     THEN CreateLocked(t, n, <<>>)
     ELSE Enqueue(t, "create_wait", "create", n)

CreateWake(t) ==
  /\ pc[t] = "create_wait"
  /\ LockWoken(t)
  /\ CreateLocked(t, loc[t].name, Tail(lock[MgrOf(t)].waiters))

\* ArtifactStore.create_namespace: issues a fresh id, or raises
StoreCreateNamespace(t) ==
  /\ pc[t] = "create_ns"
  /\ \/ /\ nextNs <= MaxNs
        /\ nsStore' = nsStore \cup
             {[id |-> nextNs, name |-> loc[t].name, type |-> "WORKSPACE"]}
        /\ nextNs' = nextNs + 1
        /\ loc' = [loc EXCEPT ![t].ns = nextNs]
     \/ /\ loc' = [loc EXCEPT ![t].err = TRUE]
        /\ UNCHANGED <<nsStore, nextNs>>
  /\ pc' = [pc EXCEPT ![t] = "create_reg"]
  /\ UNCHANGED <<tracked, cur, initialized, lock, call, fs>>

FailedNever(locals) == FALSE

\* the store's call raised: the error leaves the handler through the lock
Failed(locals) == locals.err

\* a create that always takes the pointer
CurrentAfterCreateAlways(c, id) == id

\* `if self._current_namespace_id is None: self._current_namespace_id = ...`
CurrentAfterCreate(c, id) == IF c = None THEN id ELSE c

\* create_workspace, from the return of create_namespace to the end
CreateRegister(t) ==
  LET m == MgrOf(t) IN
  /\ pc[t] = "create_reg"
  /\ IF Failed(loc[t])
     THEN /\ Finish(t, "create", loc[t].name, "StoreError")
          /\ UNCHANGED <<tracked, cur>>
     ELSE /\ tracked' = [tracked EXCEPT ![m] =
                           DictSet(@, WorkspaceInfo(loc[t].ns, loc[t].name))]
          /\ cur' = [cur EXCEPT ![m] = CurrentAfterCreate(@, loc[t].ns)]
          /\ Finish(t, "create", loc[t].name, "ok")
  /\ lock' = Released(m, lock[m].waiters)
  /\ UNCHANGED <<nsStore, nextNs, initialized, fs>>

\* destroy_workspace, from the lock being taken to the await of destroy_namespace
DestroyLocked(t, n, waiters) ==
  LET m == MgrOf(t)
      id == FindByName(tracked[m], n) IN
  /\ IF id = None
     THEN /\ Finish(t, "destroy", n, "NotFound")
          /\ lock' = Released(m, waiters)
     ELSE /\ Suspend(t, "destroy_ns", "destroy", n, id, FALSE)
          /\ lock' = Held(m, t, waiters)
  /\ UNCHANGED <<nsStore, nextNs, tracked, cur, initialized, fs>>

DestroyWorkspace(t, n) ==
  /\ pc[t] = "idle"
  /\ IF LockFree(MgrOf(t))
     THEN DestroyLocked(t, n, <<>>)
     ELSE Enqueue(t, "destroy_wait", "destroy", n)

DestroyWake(t) ==
  /\ pc[t] = "destroy_wait"
  /\ LockWoken(t)
  /\ DestroyLocked(t, loc[t].name, Tail(lock[MgrOf(t)].waiters))

\* ArtifactStore.destroy_namespace: releases the namespace, or raises
StoreDestroyNamespace(t) ==
  /\ pc[t] = "destroy_ns"
  /\ \/ /\ nsStore' = {ns \in nsStore : ns.id # loc[t].ns}
        /\ loc' = loc
     \/ /\ loc' = [loc EXCEPT ![t].err = TRUE]
        /\ nsStore' = nsStore
  /\ pc' = [pc EXCEPT ![t] = "destroy_reg"]
  /\ UNCHANGED <<nextNs, tracked, cur, initialized, lock, call, fs>>

\* a destroy that leaves the pointer where it was
CurrentAfterDestroyStale(c, id, d) == c

\* a destroy that clears the pointer and never falls back
CurrentAfterDestroyCleared(c, id, d) == IF c = id THEN None ELSE c

\* the pointer after `del self._namespace_to_info[namespace_id]`
CurrentAfterDestroy(c, id, d) ==
  IF c = id THEN (IF d # <<>> THEN FirstKey(d) ELSE None) ELSE c

\* destroy_workspace, from the return of destroy_namespace to the end
DestroyRegister(t) ==
  LET m == MgrOf(t) IN
  /\ pc[t] = "destroy_reg"
  /\ IF Failed(loc[t])
     THEN /\ Finish(t, "destroy", loc[t].name, "StoreError")
          /\ UNCHANGED <<tracked, cur>>
     ELSE LET d == DictDel(tracked[m], loc[t].ns) IN
          /\ tracked' = [tracked EXCEPT ![m] = d]
          /\ cur' = [cur EXCEPT ![m] = CurrentAfterDestroy(@, loc[t].ns, d)]
          /\ Finish(t, "destroy", loc[t].name, "ok")
  /\ lock' = Released(m, lock[m].waiters)
  /\ UNCHANGED <<nsStore, nextNs, initialized, fs>>

\* a switch that goes to the first record whatever the name
SwitchTargetFirst(d, c, n) == IF d = <<>> THEN c ELSE FirstKey(d)

\* the pointer after switch_workspace(name)
SwitchTarget(d, c, n) == IF FindByName(d, n) = None THEN c ELSE FindByName(d, n)

\* switch_workspace: no await, no lock
SwitchWorkspace(t, n) ==
  LET m == MgrOf(t) IN
  /\ pc[t] = "idle"
  /\ cur' = [cur EXCEPT ![m] = SwitchTarget(tracked[m], @, n)]
  /\ Finish(t, "switch", n,
            IF FindByName(tracked[m], n) = None THEN "NotFound" ELSE "ok")
  /\ UNCHANGED <<nsStore, nextNs, tracked, initialized, lock, fs>>

\* workspace_list: _sync_namespaces without the lock, then list_workspaces
WorkspaceList(t) ==
  LET m == MgrOf(t) IN
  /\ pc[t] = "idle"
  /\ \E listing \in SyncListings(m) :
       LET s == SyncNamespaces(m, listing) IN
       /\ tracked' = [tracked EXCEPT ![m] = s.tracked]
       /\ cur' = [cur EXCEPT ![m] = s.cur]
  /\ initialized' = [initialized EXCEPT ![m] = TRUE]
  /\ Finish(t, "list", "", "ok")
  /\ UNCHANGED <<nsStore, nextNs, lock, fs>>

\* get_workspace_info(name): the record, or the error raised
GetWorkspaceInfo(m, n) ==
  IF n = ""
  THEN IF cur[m] = None THEN "NoCurrentWorkspace"
       ELSE IF Has(tracked[m], cur[m]) THEN DictGet(tracked[m], cur[m])
       ELSE "KeyError"
  ELSE IF NameExists(tracked[m], n)
       THEN DictGet(tracked[m], FindByName(tracked[m], n))
       ELSE "NotFound"

\* get_workspace_info(name): the error it raises, or "ok"
InfoError(m, n) ==
  IF n = ""
  THEN IF cur[m] = None THEN "NoCurrentWorkspace"
       ELSE IF Has(tracked[m], cur[m]) THEN "ok" ELSE "KeyError"
  ELSE IF NameExists(tracked[m], n) THEN "ok" ELSE "NotFound"

\* the id of the record that get_workspace_info(name) returns
InfoId(m, n) == IF n = "" THEN cur[m] ELSE FindByName(tracked[m], n)

\* ------------------------------------------------------ mount and unmount
\* Mount points are numbered: those a caller names, and the default
\* "/tmp/vfs-mounts/{name}" of each workspace name.
MountDirs == {1, 2}
\* a mount that records no directory when none is asked for
DefaultMountPointNone(n) == None

\* f"/tmp/vfs-mounts/{info.name}"
DefaultMountPoint(n) == IF n = "a" THEN 3 ELSE 4

AlreadyMountedNever(info) == FALSE

\* `if info.is_mounted`
AlreadyMounted(info) == info.is_mounted

Mounted(n, asked, success, mp) ==
  [op |-> "mount", name |-> n, asked |-> asked, success |-> success, mount_point |-> mp]

\* workspace_mount: no await, no lock
WorkspaceMount(t, n, mp) ==
  LET m == MgrOf(t)
      info == DictGet(tracked[m], InfoId(m, n)) IN
  /\ pc[t] = "idle"
  /\ IF InfoError(m, n) # "ok"
     THEN /\ Finish(t, "mount", n, InfoError(m, n))
          /\ reply' = Mounted(n, mp, FALSE, None)
          /\ tracked' = tracked
     ELSE IF AlreadyMounted(info)
     THEN /\ Finish(t, "mount", n, "refused")
          /\ reply' = Mounted(n, mp, FALSE, info.mount_point)
          /\ tracked' = tracked
     ELSE LET mount_point == IF mp = None THEN DefaultMountPoint(info.name) ELSE mp IN
          /\ tracked' = [tracked EXCEPT ![m] =
                DictSet(@, [info EXCEPT !.mount_point = mount_point, !.is_mounted = TRUE])]
          /\ Finish(t, "mount", n, "ok")
          /\ reply' = Mounted(n, mp, TRUE, mount_point)
  /\ UNCHANGED <<nsStore, nextNs, cur, initialized, lock, fs>>

\* workspace_unmount: no await, no lock
WorkspaceUnmount(t, n) ==
  LET m == MgrOf(t)
      info == DictGet(tracked[m], InfoId(m, n)) IN
  /\ pc[t] = "idle"
  /\ IF InfoError(m, n) # "ok"
     THEN /\ Finish(t, "unmount", n, InfoError(m, n))
          /\ reply' = [op |-> "unmount", name |-> n, success |-> FALSE, mount_point |-> None]
          /\ tracked' = tracked
     ELSE IF ~info.is_mounted
     THEN /\ Finish(t, "unmount", n, "refused")
          /\ reply' = [op |-> "unmount", name |-> n, success |-> FALSE, mount_point |-> None]
          /\ tracked' = tracked
     ELSE /\ tracked' = [tracked EXCEPT ![m] =
                DictSet(@, [info EXCEPT !.mount_point = None, !.is_mounted = FALSE])]
          /\ Finish(t, "unmount", n, "ok")
          /\ reply' = [op |-> "unmount", name |-> n, success |-> TRUE,
                       mount_point |-> info.mount_point]
  /\ UNCHANGED <<nsStore, nextNs, cur, initialized, lock, fs>>

\* ------------------------------------------------------- the VFS engine
\* An engine call takes effect when it is made; its caller resumes later.
SegD == <<"d">>
Dot == <<".">>

EmptyTree == (Root :> "dir")

Parent(p) == SubSeq(p, 1, Len(p) - 1)

\* AsyncVirtualFileSystem.get_node_info: None, or a node with is_dir
NodeInfo(tr, p) ==
  IF p \notin DOMAIN tr THEN "none" ELSE IF tr[p] = "dir" THEN "dir" ELSE "file"

\* AsyncVirtualFileSystem.mkdir: the parent must be a directory, the path new
EngineMkdir(tr, p) ==
  IF p \notin DOMAIN tr /\ p # Root /\ NodeInfo(tr, Parent(p)) = "dir"
  THEN (p :> "dir") @@ tr
  ELSE tr

\* ArtifactStore.get_namespace_vfs serves allocated namespaces
Allocated(id) == \E ns \in nsStore : ns.id = id

\* --------------------------------------------------------- path resolution
\* str(Path(current) / path): pathlib drops the "." segments of path
PathJoin(cwd, segs) == cwd \o SelectSeq(segs, LAMBDA x : x # Dot)

\* get_current_path(): the current record's current_path
GetCurrentPath(m) == DictGet(tracked[m], cur[m]).current_path

\* resolve_path(path)
ResolvePath(m, p) == IF p.abs THEN p.segs ELSE PathJoin(GetCurrentPath(m), p.segs)

\* a lookup that does not test the pointer
CurrentVfsUnchecked(m) == IF ~Allocated(cur[m]) THEN "StoreError" ELSE "ok"

\* get_current_vfs(): the error it raises, or "ok"
CurrentVfs(m) ==
  IF cur[m] = None THEN "NoCurrentWorkspace"
  ELSE IF ~Allocated(cur[m]) THEN "StoreError"
  ELSE "ok"

\* resolve_path on the strings themselves; a string is the sequence of its
\* characters, and ResolvePath above is the same on paths cut into segments
StartsWithSepNever(path) == FALSE

\* path.startswith("/")
StartsWithSep(path) == path # <<>> /\ Head(path) = "/"

\* the parts of Path(s): what stands between separators, "" and "." dropped
RECURSIVE PartsFrom(_, _, _)
PartsFrom(str, part, parts) ==
  LET done == IF part = <<>> \/ part = Dot THEN parts ELSE Append(parts, part) IN
  IF str = <<>> THEN done
  ELSE IF Head(str) = "/" THEN PartsFrom(Tail(str), <<>>, done)
  ELSE PartsFrom(Tail(str), Append(part, Head(str)), parts)

Parts(str) == PartsFrom(str, <<>>, <<>>)

\* str() of an absolute Path with these parts
RECURSIVE RenderPath(_)
RenderPath(parts) ==
  IF parts = <<>> THEN <<"/">>
  ELSE IF Len(parts) = 1 THEN <<"/">> \o parts[1]
  ELSE <<"/">> \o parts[1] \o RenderPath(Tail(parts))

\* str(Path(current) / path), current being absolute
JoinPath(current, path) ==
  IF StartsWithSep(path) THEN RenderPath(Parts(path))
  ELSE RenderPath(Parts(current) \o Parts(path))

\* resolve_path(path) for the current workspace: the string or the error
ResolveString(m, path) ==
  IF StartsWithSep(path) THEN path
  ELSE IF cur[m] = None THEN <<"NoCurrentWorkspace">>
  ELSE JoinPath(RenderPath(GetCurrentPath(m)), path)

\* a caller asks for a path to be resolved
Resolve(t, path) ==
  /\ pc[t] = "idle"
  /\ reply' = [op |-> "resolve", path |-> path,
               current |-> IF cur[MgrOf(t)] = None THEN <<>>
                           ELSE RenderPath(GetCurrentPath(MgrOf(t))),
               result |-> ResolveString(MgrOf(t), path),
               before |-> <<nsStore, nextNs, tracked, cur, initialized, lock, fs>>]
  /\ UNCHANGED <<wsvars, pc, loc, call, fs>>

\* ------------------------------------------------------------- VFS tools
FinishPath(t, op, p, r) ==
  /\ pc' = [pc EXCEPT ![t] = "idle"]
  /\ loc' = [loc EXCEPT ![t] = NoLoc]
  /\ call' = [call EXCEPT ![t] = Called(op, "", p, r)]

SuspendPath(t, at, op, p, ns, resolved, node) ==
  /\ pc' = [pc EXCEPT ![t] = at]
  /\ loc' = [loc EXCEPT ![t] = [NoLoc EXCEPT !.ns = ns, !.path = resolved, !.node = node]]
  /\ call' = [call EXCEPT ![t] = Called(op, "", p, "pending")]

\* VFSTools.mkdir: the engine's answer is not looked at
Mkdir(t, p) ==
  LET m == MgrOf(t) IN
  /\ pc[t] = "idle"
  /\ IF CurrentVfs(m) # "ok"
     THEN /\ FinishPath(t, "mkdir", p, CurrentVfs(m))
          /\ fs' = fs
     ELSE /\ Len(ResolvePath(m, p)) <= MaxDepth
          /\ fs' = [fs EXCEPT ![cur[m]] = EngineMkdir(@, ResolvePath(m, p))]
          /\ FinishPath(t, "mkdir", p, "ok")
  /\ UNCHANGED wsvars

\* VFSTools.cd, to the await of get_node_info
Cd(t, p) ==
  LET m == MgrOf(t) IN
  /\ pc[t] = "idle"
  /\ IF CurrentVfs(m) # "ok"
     THEN FinishPath(t, "cd", p, CurrentVfs(m))
     ELSE SuspendPath(t, "cd_node", "cd", p, cur[m], ResolvePath(m, p),
                      NodeInfo(fs[cur[m]], ResolvePath(m, p)))
  /\ UNCHANGED <<wsvars, fs>>

\* set_current_path(path): the record that get_workspace_info() returns now
SetCurrentPathTarget(m, ns) == cur[m]

IsDirectoryOrFile(node) == node # "none"

\* `node and node.is_dir`
IsDirectory(node) == node = "dir"

\* VFSTools.cd, from the return of get_node_info to the end
CdResume(t) ==
  LET m == MgrOf(t)
      target == SetCurrentPathTarget(m, loc[t].ns) IN
  /\ pc[t] = "cd_node"
  /\ IF ~IsDirectory(loc[t].node)
     THEN /\ FinishPath(t, "cd", call[t].path, "InvalidOperation")
          /\ tracked' = tracked
     ELSE IF target = None
     THEN /\ FinishPath(t, "cd", call[t].path, "NoCurrentWorkspace")
          /\ tracked' = tracked
     ELSE /\ tracked' = [tracked EXCEPT ![m] =
                 DictSet(@, [DictGet(@, target) EXCEPT !.current_path = loc[t].path])]
          /\ FinishPath(t, "cd", call[t].path, "ok")
  /\ UNCHANGED <<nsStore, nextNs, cur, initialized, lock, fs>>

\* VFSTools.write: every missing ancestor is made, then the file is written
SegF == <<"f">>

\* a content that the engine turns down whatever the path
Rejected == "X"

\* AsyncVirtualFileSystem.write_file takes the write: into an existing
\* directory, not over one, and a content within its limits
Accepted(tr, p, c) ==
  /\ p # Root /\ NodeInfo(tr, Parent(p)) = "dir" /\ NodeInfo(tr, p) # "dir"
  /\ c # Rejected

\* AsyncVirtualFileSystem.write_file
EngineWriteFile(tr, p, c) == IF Accepted(tr, p, c) THEN (p :> c) @@ tr ELSE tr

\* `for part in parts: if not await vfs.exists(...): await vfs.mkdir(...)`
RECURSIVE MakeParents(_, _, _)
MakeParents(tr, p, k) ==
  IF k >= Len(p) THEN tr
  ELSE MakeParents(IF SubSeq(p, 1, k) \in DOMAIN tr THEN tr
                   ELSE EngineMkdir(tr, SubSeq(p, 1, k)), p, k + 1)

WriteTree(tr, p, c) == EngineWriteFile(MakeParents(tr, p, 1), p, c)

\* what the caller of write_file sees: the engine's answer is not looked
\* at, so a write that the engine turns down passes for done unless it raises
WriteAnswers(tr, p, c) == IF Accepted(tr, p, c) THEN {"ok"} ELSE {"ok", "EngineError"}

Write(t, p, c) ==
  LET m == MgrOf(t) IN
  /\ pc[t] = "idle"
  /\ IF CurrentVfs(m) # "ok"
     THEN /\ FinishPath(t, "write", p, CurrentVfs(m))
          /\ fs' = fs
     ELSE /\ fs' = [fs EXCEPT ![cur[m]] = WriteTree(@, ResolvePath(m, p), c)]
          /\ \E r \in WriteAnswers(MakeParents(fs[cur[m]], ResolvePath(m, p), 1),
                                   ResolvePath(m, p), c) :
               FinishPath(t, "write", p, r)
  /\ UNCHANGED wsvars

\* VFSTools.read: the content, or the error raised
Read(m, p) ==
  IF CurrentVfs(m) # "ok" THEN CurrentVfs(m)
  ELSE IF NodeInfo(fs[cur[m]], ResolvePath(m, p)) # "file" THEN "NotFound"
  ELSE fs[cur[m]][ResolvePath(m, p)]

\* the entries at and below a path
Subtree(tr, p) == {q \in DOMAIN tr : Len(q) >= Len(p) /\ SubSeq(q, 1, Len(p)) = p}

Without(tr, gone) == [q \in DOMAIN tr \ gone |-> tr[q]]

\* AsyncVirtualFileSystem.rm: removes a file
EngineRm(tr, p) == IF NodeInfo(tr, p) = "file" THEN Without(tr, {p}) ELSE tr

\* AsyncVirtualFileSystem.rmdir: removes an empty directory; what it does with
\* one that has entries is the engine's business: all of it goes, or nothing
EngineRmdir(tr, p) ==
  IF p = Root \/ NodeInfo(tr, p) # "dir" THEN {tr}
  ELSE IF Subtree(tr, p) = {p} THEN {Without(tr, {p})}
  ELSE {Without(tr, Subtree(tr, p)), tr}

RecursiveAlways(recursive) == TRUE

\* the `recursive` flag as the guard reads it
Recursive(recursive) == recursive

\* VFSTools.rm
Rm(t, p, recursive) ==
  LET m == MgrOf(t)
      rp == ResolvePath(m, p) IN
  /\ pc[t] = "idle"
  /\ IF CurrentVfs(m) # "ok"
     THEN /\ FinishPath(t, "rm", p, CurrentVfs(m))
          /\ fs' = fs
     ELSE IF NodeInfo(fs[cur[m]], rp) = "none"
     THEN /\ FinishPath(t, "rm", p, "NotFound")
          /\ fs' = fs
     ELSE IF NodeInfo(fs[cur[m]], rp) = "dir" /\ ~Recursive(recursive)
     THEN /\ FinishPath(t, "rm", p, "InvalidOperation")
          /\ fs' = fs
     ELSE IF NodeInfo(fs[cur[m]], rp) = "dir"
     THEN /\ \E tr \in EngineRmdir(fs[cur[m]], rp) : fs' = [fs EXCEPT ![cur[m]] = tr]
          /\ FinishPath(t, "rm", p, "ok")
     ELSE /\ fs' = [fs EXCEPT ![cur[m]] = EngineRm(@, rp)]
          /\ FinishPath(t, "rm", p, "ok")
  /\ UNCHANGED wsvars

\* a handle looked up again when the call goes on
BoundVfsCurrent(m, ns) == cur[m]

\* `vfs`, the local that the file operation bound before its first await
BoundVfs(m, ns) == ns

\* VFSTools.write, to its first await: with a parent other than "/" that is
\* `await vfs.exists(...)`, else the write_file call itself
WriteStart(t, p, c) ==
  LET m == MgrOf(t) IN
  /\ pc[t] = "idle"
  /\ IF CurrentVfs(m) = "ok" /\ Len(ResolvePath(m, p)) > 1
     THEN /\ SuspendPath(t, "write_file", "write", p, cur[m], ResolvePath(m, p), "none")
          /\ UNCHANGED <<wsvars, fs>>
     ELSE Write(t, p, c)

\* VFSTools.write from there on: the parents, then write_file, on the handle
\* and the path bound at the start; c is the request's content
WriteResume(t, c) ==
  LET ns == BoundVfs(MgrOf(t), loc[t].ns) IN
  /\ pc[t] = "write_file"
  /\ fs' = [fs EXCEPT ![ns] = WriteTree(@, loc[t].path, c)]
  /\ \E r \in WriteAnswers(MakeParents(fs[ns], loc[t].path, 1), loc[t].path, c) :
       FinishPath(t, "write", call[t].path, r)
  /\ UNCHANGED wsvars

\* VFSTools.read as a call
ReadFile(t, p) ==
  LET m == MgrOf(t) IN
  /\ pc[t] = "idle"
  /\ FinishPath(t, "read", p,
                IF Read(m, p) \in {"NoCurrentWorkspace", "StoreError", "NotFound"}
                THEN Read(m, p) ELSE "ok")
  /\ UNCHANGED <<wsvars, fs>>

\* VFSTools.ls; listing something that is not a directory is the engine's
\* business: nothing listed, or an error
ListDirectory(t, p) ==
  LET m == MgrOf(t) IN
  /\ pc[t] = "idle"
  /\ IF CurrentVfs(m) # "ok"
     THEN FinishPath(t, "ls", p, CurrentVfs(m))
     ELSE IF NodeInfo(fs[cur[m]], ResolvePath(m, p)) # "dir"
     THEN \E r \in {"ok", "EngineError"} : FinishPath(t, "ls", p, r)
     ELSE FinishPath(t, "ls", p, "ok")
  /\ UNCHANGED <<wsvars, fs>>

\* q is p or lies below it
Under(q, p) == Len(q) >= Len(p) /\ SubSeq(q, 1, Len(p)) = p

\* where an entry under `source` lands under `dest`
Rebase(q, source, dest) == dest \o SubSeq(q, Len(source) + 1, Len(q))

\* the tree with the entries of `source` placed at `dest`
Placed(tr, source, dest) ==
  [q \in {Rebase(x, source, dest) : x \in Subtree(tr, source)} |->
     tr[source \o SubSeq(q, Len(dest) + 1, Len(q))]] @@ Without(tr, Subtree(tr, dest))

\* AsyncVirtualFileSystem.cp: the source must exist and the destination have
\* a directory above it and lie outside the source; whether an existing
\* destination is replaced is the engine's business
EngineCp(tr, source, dest) ==
  IF \/ source \notin DOMAIN tr \/ source = Root \/ dest = Root
     \/ NodeInfo(tr, Parent(dest)) # "dir"
     \/ Under(dest, source) \/ Under(source, dest)
  THEN {tr}
  ELSE IF dest \notin DOMAIN tr THEN {Placed(tr, source, dest)}
  ELSE {Placed(tr, source, dest), tr}

\* AsyncVirtualFileSystem.mv: a copy that takes the source away
EngineMv(tr, source, dest) ==
  {IF after = tr THEN tr ELSE Without(after, Subtree(tr, source)) :
     after \in EngineCp(tr, source, dest)}

\* what the caller of vfs.mv and vfs.cp sees when nothing was done: the
\* engine's answer is not looked at, so only a raised error shows
Answers(tr, after) == IF after = tr THEN {"ok", "EngineError"} ELSE {"ok"}

\* VFSTools.mv
Mv(t, source, dest) ==
  LET m == MgrOf(t) IN
  /\ pc[t] = "idle"
  /\ IF CurrentVfs(m) # "ok"
     THEN /\ FinishPath(t, "mv", source, CurrentVfs(m))
          /\ fs' = fs
     ELSE \E after \in EngineMv(fs[cur[m]], ResolvePath(m, source), ResolvePath(m, dest)) :
            /\ \A q \in DOMAIN after : Len(q) <= MaxDepth
            /\ fs' = [fs EXCEPT ![cur[m]] = after]
            /\ \E r \in Answers(fs[cur[m]], after) : FinishPath(t, "mv", source, r)
  /\ UNCHANGED wsvars

\* VFSTools.cp
Cp(t, source, dest) ==
  LET m == MgrOf(t) IN
  /\ pc[t] = "idle"
  /\ IF CurrentVfs(m) # "ok"
     THEN /\ FinishPath(t, "cp", source, CurrentVfs(m))
          /\ fs' = fs
     ELSE \E after \in EngineCp(fs[cur[m]], ResolvePath(m, source), ResolvePath(m, dest)) :
            /\ \A q \in DOMAIN after : Len(q) <= MaxDepth
            /\ fs' = [fs EXCEPT ![cur[m]] = after]
            /\ \E r \in Answers(fs[cur[m]], after) : FinishPath(t, "cp", source, r)
  /\ UNCHANGED wsvars

\* get_current_path() as pwd calls it: the directory, or the error raised
CurrentDirectory(m) ==
  IF cur[m] = None THEN [res |-> "NoCurrentWorkspace", cwd |-> Root]
  ELSE IF ~Has(tracked[m], cur[m]) THEN [res |-> "KeyError", cwd |-> Root]
  ELSE [res |-> "ok", cwd |-> GetCurrentPath(m)]

\* VFSTools.pwd
Pwd(t) ==
  /\ pc[t] = "idle"
  /\ FinishPath(t, "pwd", RootPath, CurrentDirectory(MgrOf(t)).res)
  /\ UNCHANGED <<wsvars, fs>>

\* ---------------------------------------------------- checkpoint manager
NoMgr == [vfs |-> None, shots |-> <<>>]

\* the snapshot manager is cached under the workspace's name for good
CachedManager(m, n) == snap[n]

\* a handle on the first tracked workspace whatever the name
SnapshotVfsFirst(m, n) == FirstKey(tracked[m])

\* `vfs = self.workspace_manager.get_vfs(workspace_name)`
SnapshotVfs(m, n) == FindByName(tracked[m], n)

\* _get_snapshot_manager(): whom it serves, the error raised and the cache after
GetSnapshotManager(m) ==
  IF cur[m] = None THEN [err |-> "NoCurrentWorkspace", name |-> "", cache |-> snap]
  ELSE LET n == DictGet(tracked[m], cur[m]).name
           id == SnapshotVfs(m, n) IN
       IF CachedManager(m, n) # NoMgr THEN [err |-> "ok", name |-> n, cache |-> snap]
       ELSE IF ~Allocated(id) THEN [err |-> "StoreError", name |-> n, cache |-> snap]
       ELSE [err |-> "ok", name |-> n,
             cache |-> [snap EXCEPT ![n] = [vfs |-> id, shots |-> <<>>]]]

ShotNamed(shots, ck) == shots[CHOOSE i \in DOMAIN shots : shots[i].name = ck]
HasShot(shots, ck) == \E i \in DOMAIN shots : shots[i].name = ck

\* AsyncSnapshotManager.create_snapshot: snapshots are kept by name
PutShot(shots, rec) ==
  IF HasShot(shots, rec.name)
  THEN [i \in DOMAIN shots |-> IF shots[i].name = rec.name THEN rec ELSE shots[i]]
  ELSE Append(shots, rec)

\* whether the engine behind a snapshot manager answers: a VFS of a released
\* namespace may still work or may raise
EngineAnswers(id) == IF Allocated(id) THEN {TRUE} ELSE {TRUE, FALSE}

\* CheckpointManager.create_checkpoint
CheckpointCreate(t, ck) ==
  LET m == MgrOf(t)
      g == GetSnapshotManager(m) IN
  /\ pc[t] = "idle"
  /\ IF g.err # "ok"
     THEN /\ Finish(t, "checkpoint_create", ck, g.err)
          /\ snap' = g.cache
     ELSE \E up \in EngineAnswers(g.cache[g.name].vfs) :
            IF up
            THEN /\ snap' = [g.cache EXCEPT ![g.name].shots =
                        PutShot(@, [name |-> ck, tree |-> fs[g.cache[g.name].vfs],
                                    ws |-> cur[m]])]
                 /\ Finish(t, "checkpoint_create", ck, "ok")
            ELSE /\ snap' = g.cache
                 /\ Finish(t, "checkpoint_create", ck, "EngineError")
  /\ UNCHANGED <<wsvars, fs>>

\* CheckpointManager.restore_checkpoint
CheckpointRestore(t, ck) ==
  LET m == MgrOf(t)
      g == GetSnapshotManager(m) IN
  /\ pc[t] = "idle"
  /\ snap' = g.cache
  /\ IF g.err # "ok"
     THEN /\ Finish(t, "checkpoint_restore", ck, g.err)
          /\ fs' = fs
     ELSE IF ~HasShot(g.cache[g.name].shots, ck)
     THEN /\ Finish(t, "checkpoint_restore", ck, "NotFound")
          /\ fs' = fs
     ELSE \E up \in EngineAnswers(g.cache[g.name].vfs) :
            IF up
            THEN /\ fs' = [fs EXCEPT ![g.cache[g.name].vfs] =
                              ShotNamed(g.cache[g.name].shots, ck).tree]
                 /\ Finish(t, "checkpoint_restore", ck, "ok")
            ELSE /\ fs' = fs
                 /\ Finish(t, "checkpoint_restore", ck, "EngineError")
  /\ UNCHANGED wsvars

\* CheckpointManager.delete_checkpoint
CheckpointDelete(t, ck) ==
  LET m == MgrOf(t)
      g == GetSnapshotManager(m) IN
  /\ pc[t] = "idle"
  /\ IF g.err # "ok"
     THEN /\ Finish(t, "checkpoint_delete", ck, g.err)
          /\ snap' = g.cache
     ELSE IF ~HasShot(g.cache[g.name].shots, ck)
     THEN /\ Finish(t, "checkpoint_delete", ck, "NotFound")
          /\ snap' = g.cache
     ELSE /\ snap' = [g.cache EXCEPT ![g.name].shots =
                         SelectSeq(@, LAMBDA r : r.name # ck)]
          /\ Finish(t, "checkpoint_delete", ck, "ok")
  /\ UNCHANGED <<wsvars, fs>>

\* CheckpointManager.list_checkpoints: the records returned, or the error
ListCheckpoints(m) ==
  LET g == GetSnapshotManager(m) IN
  IF g.err # "ok" THEN g.err ELSE g.cache[g.name].shots

CheckpointList(t) ==
  LET m == MgrOf(t)
      g == GetSnapshotManager(m) IN
  /\ pc[t] = "idle"
  /\ snap' = g.cache
  /\ Finish(t, "checkpoint_list", "", g.err)
  /\ UNCHANGED <<wsvars, fs>>

\* ------------------------------------------------------------------ find
\* fnmatch(name, pattern) for patterns of literals, "?" and "*"
RECURSIVE Glob(_, _)
Glob(n, pat) ==
  IF pat = <<>> THEN n = <<>>
  ELSE IF Head(pat) = "*"
  THEN Glob(n, Tail(pat)) \/ (n # <<>> /\ Glob(Tail(n), pat))
  ELSE /\ n # <<>>
       /\ Head(pat) = "?" \/ Head(pat) = Head(n)
       /\ Glob(Tail(n), Tail(pat))

\* vfs.ls(path): the names under a directory, in the engine's order
Ls(tr, p, order) == SelectSeq(order, LAMBDA n : Append(p, n) \in DOMAIN tr)

CapReachedLate(results, max) == Len(results) > max

\* `len(results) >= request.max_results`
CapReached(results, max) == Len(results) >= max

NoMatches == [results |-> <<>>, truncated |-> FALSE]

\* a search that does not look below an entry it has reported
DescendsUnmatched(matched, node) == node = "dir" /\ ~matched

\* `if node_info and node_info.is_dir`, whatever fnmatch said of the name
Descends(matched, node) == node = "dir"

\* the nested search(current_path) of VFSTools.find and its loop over names
RECURSIVE Search(_, _, _, _, _, _)
RECURSIVE SearchLoop(_, _, _, _, _, _, _, _)
Search(tr, order, pat, max, p, st) ==
  IF CapReached(st.results, max) THEN [st EXCEPT !.truncated = TRUE]
  ELSE SearchLoop(tr, order, pat, max, p, Ls(tr, p, order), 1, st)

SearchLoop(tr, order, pat, max, p, filenames, i, st) ==
  IF i > Len(filenames) THEN st
  ELSE IF CapReached(st.results, max) THEN [st EXCEPT !.truncated = TRUE]
  ELSE LET name == filenames[i]
           full_path == Append(p, name)
           st1 == IF Glob(name, pat)
                  THEN [st EXCEPT !.results = Append(@, full_path)]
                  ELSE st
           st2 == IF Descends(Glob(name, pat), NodeInfo(tr, full_path))
                  THEN Search(tr, order, pat, max, full_path, st1)
                  ELSE st1
       IN SearchLoop(tr, order, pat, max, p, filenames, i + 1, st2)

NoFound == [pattern |-> <<>>, path |-> Root, max |-> 0, order |-> <<>>,
            matches |-> <<>>, truncated |-> FALSE, res |-> "none"]

Found(pat, rp, max, order, st, r) ==
  [pattern |-> pat, path |-> rp, max |-> max, order |-> order,
   matches |-> st.results, truncated |-> st.truncated, res |-> r]

\* VFSTools.find; listing something that is not a directory is the engine's
\* business: nothing listed, or an error
Find(t, pat, p, max, order) ==
  LET m == MgrOf(t)
      rp == ResolvePath(m, p) IN
  /\ pc[t] = "idle"
  /\ IF CurrentVfs(m) # "ok"
     THEN /\ FinishPath(t, "find", p, CurrentVfs(m))
          /\ found' = Found(pat, Root, max, order, NoMatches, CurrentVfs(m))
     ELSE IF NodeInfo(fs[cur[m]], rp) # "dir"
     THEN \E r \in {"ok", "EngineError"} :
            /\ FinishPath(t, "find", p, r)
            /\ found' = Found(pat, rp, max, order, NoMatches, r)
     ELSE /\ FinishPath(t, "find", p, "ok")
          /\ found' = Found(pat, rp, max, order,
                            Search(fs[cur[m]], order, pat, max, rp, NoMatches), "ok")
  /\ UNCHANGED <<wsvars, fs>>

\* ------------------------------------------------------------------ grep
NoReply == [op |-> "none"]

\* what a file content is as text: its lines
Text(c) ==
  CASE c = "A" -> <<<<"q">>, <<" ", "p">>>>
    [] c = "B" -> <<<<"p">>, <<"q">>, <<"p", " ">>>>
    [] OTHER -> <<>>

\* content_str.splitlines()
SplitLines(c) == Text(c)

\* `request.pattern in line`
Contains(line, pat) ==
  \E i \in 0..(Len(line) - Len(pat)) : SubSeq(line, i + 1, i + Len(pat)) = pat

\* line.strip()
RECURSIVE Strip(_)
Strip(line) ==
  IF line = <<>> THEN line
  ELSE IF Head(line) = " " THEN Strip(Tail(line))
  ELSE IF line[Len(line)] = " " THEN Strip(SubSeq(line, 1, Len(line) - 1))
  ELSE line

LineNumberFromZero(i) == i - 1

\* enumerate(..., start=1)
LineNumber(i) == i

GrepMatch(f, i, line) == [file |-> f, line |-> LineNumber(i), content |-> Strip(line)]

\* the loop over the lines of one file
RECURSIVE GrepLines(_, _, _, _, _, _)
GrepLines(lines, i, pat, max, f, st) ==
  IF i > Len(lines) THEN st
  ELSE IF ~Contains(lines[i], pat) THEN GrepLines(lines, i + 1, pat, max, f, st)
  ELSE LET st1 == [st EXCEPT !.results = Append(@, GrepMatch(f, i, lines[i]))] IN
       IF Len(st1.results) >= max THEN [st1 EXCEPT !.truncated = TRUE]
       ELSE GrepLines(lines, i + 1, pat, max, f, st1)

\* search_file: a file in `bad` cannot be read
SearchFile(tr, bad, pat, max, f, st) ==
  IF Len(st.results) >= max THEN [st EXCEPT !.truncated = TRUE]
  ELSE IF f \in bad THEN st
  ELSE GrepLines(SplitLines(tr[f]), 1, pat, max, f, st)

\* search_dir and its loop over names
RECURSIVE SearchDir(_, _, _, _, _, _, _)
RECURSIVE SearchDirLoop(_, _, _, _, _, _, _, _, _)
SearchDir(tr, order, bad, pat, max, p, st) ==
  IF Len(st.results) >= max THEN [st EXCEPT !.truncated = TRUE]
  ELSE SearchDirLoop(tr, order, bad, pat, max, p, Ls(tr, p, order), 1, st)

SearchDirLoop(tr, order, bad, pat, max, p, filenames, i, st) ==
  IF i > Len(filenames) THEN st
  ELSE IF Len(st.results) >= max THEN [st EXCEPT !.truncated = TRUE]
  ELSE LET full_path == Append(p, filenames[i])
           st1 == IF NodeInfo(tr, full_path) = "none" THEN st
                  ELSE IF NodeInfo(tr, full_path) = "dir"
                  THEN SearchDir(tr, order, bad, pat, max, full_path, st)
                  ELSE SearchFile(tr, bad, pat, max, full_path, st)
       IN SearchDirLoop(tr, order, bad, pat, max, p, filenames, i + 1, st1)

Grepped(pat, rp, max, order, bad, st, r) ==
  [op |-> "grep", pattern |-> pat, path |-> rp, max |-> max, order |-> order,
   bad |-> bad, matches |-> st.results, truncated |-> st.truncated, res |-> r]

\* VFSTools.grep
Grep(t, pat, p, max, order, bad) ==
  LET m == MgrOf(t)
      rp == ResolvePath(m, p) IN
  /\ pc[t] = "idle"
  /\ IF CurrentVfs(m) # "ok"
     THEN /\ FinishPath(t, "grep", p, CurrentVfs(m))
          /\ reply' = Grepped(pat, Root, max, order, bad, NoMatches, CurrentVfs(m))
     ELSE IF NodeInfo(fs[cur[m]], rp) = "none"
     THEN /\ FinishPath(t, "grep", p, "NotFound")
          /\ reply' = Grepped(pat, rp, max, order, bad, NoMatches, "NotFound")
     ELSE /\ FinishPath(t, "grep", p, "ok")
          /\ reply' = Grepped(pat, rp, max, order, bad,
                IF NodeInfo(fs[cur[m]], rp) = "dir"
                THEN SearchDir(fs[cur[m]], order, bad, pat, max, rp, NoMatches)
                ELSE SearchFile(fs[cur[m]], bad, pat, max, rp, NoMatches), "ok")
  /\ UNCHANGED <<wsvars, fs>>

\* ------------------------------------------------------------------ tree
\* TreeNode; children = << >> stands for children=None
TreeNode(name, type, children, truncated) ==
  [name |-> name, type |-> type, children |-> children, truncated |-> truncated]

TooDeepLate(depth, max_depth) == depth > max_depth + 1

\* `depth > max_depth`
TooDeep(depth, max_depth) == depth > max_depth

\* Path(current_path).name, "/" for the root
NodeName(p) == IF p = Root THEN <<"/">> ELSE p[Len(p)]

\* the nested build_tree(current_path, depth) of VFSTools.tree
RECURSIVE BuildTree(_, _, _, _, _)
BuildTree(tr, order, p, depth, max_depth) ==
  IF TooDeep(depth, max_depth)
  THEN TreeNode(<<".", ".", ".">>, "directory", <<>>, TRUE)
  ELSE IF NodeInfo(tr, p) = "none"
  THEN TreeNode(<<"?", "?", "?">>, "file", <<>>, FALSE)
  ELSE IF NodeInfo(tr, p) = "file"
  THEN TreeNode(NodeName(p), "file", <<>>, FALSE)
  ELSE LET filenames == Ls(tr, p, order) IN
       TreeNode(NodeName(p), "directory",
                [i \in 1..Len(filenames) |->
                   BuildTree(tr, order, Append(p, filenames[i]), depth + 1, max_depth)],
                FALSE)

\* VFSTools.tree
Tree(t, p, max_depth, order) ==
  LET m == MgrOf(t)
      rp == ResolvePath(m, p) IN
  /\ pc[t] = "idle"
  /\ IF CurrentVfs(m) # "ok"
     THEN /\ FinishPath(t, "tree", p, CurrentVfs(m))
          /\ reply' = [op |-> "tree", res |-> CurrentVfs(m)]
     ELSE /\ FinishPath(t, "tree", p, "ok")
          /\ reply' = [op |-> "tree", res |-> "ok", path |-> rp,
                       max_depth |-> max_depth, order |-> order,
                       root |-> BuildTree(fs[cur[m]], order, rp, 0, max_depth)]
  /\ UNCHANGED <<wsvars, fs>>

\* ------------------------------------------------------------------ Init
NoScript == [step |-> 0, path |-> RootPath, a |-> "", b |-> "", ck |-> "", read |-> ""]

Init ==
  /\ nsStore = {}
  /\ nextNs = 1
  /\ tracked = [m \in Mgrs |-> <<>>]
  /\ cur = [m \in Mgrs |-> None]
  /\ initialized = [m \in Mgrs |-> FALSE]
  /\ lock = [m \in Mgrs |-> [holder |-> NoTask, waiters |-> <<>>]]
  /\ pc = [t \in Tasks |-> "idle"]
  /\ loc = [t \in Tasks |-> NoLoc]
  /\ call = [t \in Tasks |-> NoCall]
  /\ fs = [id \in NsIds |-> EmptyTree]
  /\ snap = [n \in Names |-> NoMgr]
  /\ script = NoScript
  /\ found = NoFound
  /\ reply = NoReply

\* ------------------------------------------------- the manager on its own
\* Concurrent callers of one manager.
ManagerStep(t) ==
  \/ \E n \in Names : CreateWorkspace(t, n)
  \/ CreateWake(t)
  \/ StoreCreateNamespace(t)
  \/ CreateRegister(t)
  \/ \E n \in Names : DestroyWorkspace(t, n)
  \/ DestroyWake(t)
  \/ StoreDestroyNamespace(t)
  \/ DestroyRegister(t)
  \/ \E n \in Names : SwitchWorkspace(t, n)
  \/ WorkspaceList(t)

Next == (\E t \in LocalTasks : ManagerStep(t)) /\ UNCHANGED <<ckvars, outvars>>

Spec == Init /\ [][Next]_vars

\* Every store call returns or raises, and the event loop runs every task
\* that can go on: a caller woken by the lock, a store call that came back.
Resume(t) ==
  /\ \/ CreateWake(t)
     \/ StoreCreateNamespace(t)
     \/ CreateRegister(t)
     \/ DestroyWake(t)
     \/ StoreDestroyNamespace(t)
     \/ DestroyRegister(t)
  /\ UNCHANGED <<ckvars, outvars>>

SpecLive == Init /\ [][Next]_vars /\ \A t \in LocalTasks : WF_vars(Resume(t))

\* ------------------------------------------- managers sharing one store
\* Manager 0 and its peers, one caller each, on the same ArtifactStore.
\* A peer instance serves one call: a create or a list.
PeerStep(t) ==
  \/ \E n \in Names : call[t].op = "none" /\ CreateWorkspace(t, n)
  \/ StoreCreateNamespace(t)
  \/ CreateRegister(t)
  \/ call[t].op = "none" /\ WorkspaceList(t)

\* A manager with a single caller: nobody ever waits for its lock.
SoloStep(t) ==
  \/ \E n \in Names : CreateWorkspace(t, n)
  \/ StoreCreateNamespace(t)
  \/ CreateRegister(t)
  \/ \E n \in Names : DestroyWorkspace(t, n)
  \/ StoreDestroyNamespace(t)
  \/ DestroyRegister(t)
  \/ \E n \in Names : SwitchWorkspace(t, n)
  \/ WorkspaceList(t)

NextShared ==
  /\ \/ SoloStep(<<0, 1>>)
     \/ \E t \in PeerTasks : PeerStep(t)
  /\ UNCHANGED <<ckvars, outvars>>

SpecShared == Init /\ [][NextShared]_vars

\* A manager starts on a store that others have filled: workspaces, blob
\* namespaces and namespaces without a name.
InStore(id, n) ==
  {{}} \cup {{[id |-> id, name |-> x, type |-> ty]} :
               x \in {n, ""}, ty \in {"WORKSPACE", "BLOB"}}

InitSync ==
  /\ \E f \in InStore(1, "a"), g \in InStore(2, "b") : nsStore = f \cup g
  /\ nextNs = 3
  /\ tracked = [m \in Mgrs |-> <<>>]
  /\ cur = [m \in Mgrs |-> None]
  /\ initialized = [m \in Mgrs |-> FALSE]
  /\ lock = [m \in Mgrs |-> [holder |-> NoTask, waiters |-> <<>>]]
  /\ pc = [t \in Tasks |-> "idle"]
  /\ loc = [t \in Tasks |-> NoLoc]
  /\ call = [t \in Tasks |-> NoCall]
  /\ fs = [id \in NsIds |-> EmptyTree]
  /\ snap = [n \in Names |-> NoMgr]
  /\ script = NoScript
  /\ found = NoFound
  /\ reply = NoReply

NextSync == SoloStep(<<0, 1>>) /\ UNCHANGED <<ckvars, outvars>>

SpecSync == InitSync /\ [][NextSync]_vars

\* ------------------------------------------- one round of concurrent creates
\* Every caller of manager 0 calls create once.
NextRace ==
  /\ \E t \in LocalTasks :
       \/ \E n \in Names : call[t].op = "none" /\ CreateWorkspace(t, n)
       \/ CreateWake(t)
       \/ StoreCreateNamespace(t)
       \/ CreateRegister(t)
  /\ UNCHANGED <<ckvars, outvars>>

SpecRace == Init /\ [][NextRace]_vars

\* ---------------------------------------------------------- navigation
\* VFSTools.ls, to the await of the first get_node_info: the handle is
\* bound and vfs.ls has answered; an empty listing ends the call
LsStart(t, p) ==
  LET m == MgrOf(t)
      rp == ResolvePath(m, p) IN
  /\ pc[t] = "idle"
  /\ IF CurrentVfs(m) # "ok"
     THEN FinishPath(t, "ls", p, CurrentVfs(m))
     ELSE IF NodeInfo(fs[cur[m]], rp) # "dir"
     THEN \E r \in {"ok", "EngineError"} : FinishPath(t, "ls", p, r)
     ELSE IF {q \in DOMAIN fs[cur[m]] : Len(q) = Len(rp) + 1 /\ Under(q, rp)} = {}
     THEN FinishPath(t, "ls", p, "ok")
     ELSE SuspendPath(t, "ls_info", "ls", p, cur[m], rp, "dir")
  /\ UNCHANGED <<wsvars, fs>>

\* VFSTools.ls, the get_node_info calls on the bound handle and the return
LsInfo(t) ==
  /\ pc[t] = "ls_info"
  /\ \E up \in EngineAnswers(loc[t].ns) :
       FinishPath(t, "ls", call[t].path, IF up THEN "ok" ELSE "EngineError")
  /\ UNCHANGED <<wsvars, fs>>

\* One caller lists a directory while another creates and destroys workspaces.
LsPaths == {RootPath}

\* One caller works in the file tree while another manages the workspaces.
NavPaths == {[abs |-> TRUE, segs |-> <<SegD>>], [abs |-> FALSE, segs |-> <<SegD>>]}

NextNav ==
  /\ \/ \E p \in NavPaths : Mkdir(<<0, 1>>, p)
     \/ \E p \in NavPaths : Cd(<<0, 1>>, p)
     \/ CdResume(<<0, 1>>)
     \/ \E n \in Names : CreateWorkspace(<<0, 2>>, n)
     \/ StoreCreateNamespace(<<0, 2>>)
     \/ CreateRegister(<<0, 2>>)
     \/ \E n \in Names : DestroyWorkspace(<<0, 2>>, n)
     \/ StoreDestroyNamespace(<<0, 2>>)
     \/ DestroyRegister(<<0, 2>>)
     \/ \E n \in Names : SwitchWorkspace(<<0, 2>>, n)
  /\ UNCHANGED <<ckvars, outvars>>

SpecNav == Init /\ [][NextNav]_vars

NextLs ==
  /\ \/ \E p \in NavPaths : Mkdir(<<0, 1>>, p)
     \/ \E p \in LsPaths : LsStart(<<0, 1>>, p)
     \/ LsInfo(<<0, 1>>)
     \/ \E n \in Names : CreateWorkspace(<<0, 2>>, n)
     \/ StoreCreateNamespace(<<0, 2>>)
     \/ CreateRegister(<<0, 2>>)
     \/ \E n \in Names : DestroyWorkspace(<<0, 2>>, n)
     \/ StoreDestroyNamespace(<<0, 2>>)
     \/ DestroyRegister(<<0, 2>>)
  /\ UNCHANGED <<ckvars, outvars>>

SpecLs == Init /\ [][NextLs]_vars

\* ---------------------------------------------------------- checkpoints
\* One caller creates, switches and destroys workspaces, writes files and
\* takes, restores, lists and deletes checkpoints.  Now and then it runs
\* write A, checkpoint, write B, restore, read on one path without a break.
CkNames == {"c1"}
Contents == {"A", "B"}
CkPaths == {[abs |-> TRUE, segs |-> <<SegD, SegF>>]}
Caller == <<0, 1>>

Stepped(k) ==
  script' = IF call'[Caller].res = "ok" THEN [script EXCEPT !.step = k] ELSE NoScript

ScriptStart ==
  \E p \in CkPaths, a \in Contents, b \in Contents, ck \in CkNames :
    /\ script.step = 0
    /\ a # b
    /\ Write(Caller, p, a)
    /\ snap' = snap
    /\ script' = IF call'[Caller].res = "ok"
                 THEN [step |-> 1, path |-> p, a |-> a, b |-> b, ck |-> ck, read |-> ""]
                 ELSE NoScript

ScriptCheckpoint ==
  /\ script.step = 1
  /\ CheckpointCreate(Caller, script.ck)
  /\ Stepped(2)

ScriptOverwrite ==
  /\ script.step = 2
  /\ Write(Caller, script.path, script.b)
  /\ snap' = snap
  /\ Stepped(3)

ScriptRestore ==
  /\ script.step = 3
  /\ CheckpointRestore(Caller, script.ck)
  /\ Stepped(4)

ScriptRead ==
  /\ script.step = 4
  /\ script' = [script EXCEPT !.step = 5, !.read = Read(0, script.path)]
  /\ UNCHANGED <<wsvars, pc, loc, call, fs, snap>>

ScriptEnd ==
  /\ script.step = 5
  /\ script' = NoScript
  /\ UNCHANGED <<wsvars, pc, loc, call, fs, snap>>

CkStep ==
  \/ /\ script.step = 0
     /\ script' = script
     /\ \/ SoloStep(Caller) /\ snap' = snap
        \/ \E p \in CkPaths, c \in Contents : Write(Caller, p, c) /\ snap' = snap
        \/ \E ck \in CkNames : CheckpointCreate(Caller, ck)
        \/ \E ck \in CkNames : CheckpointRestore(Caller, ck)
        \/ \E ck \in CkNames : CheckpointDelete(Caller, ck)
        \/ CheckpointList(Caller)
  \/ ScriptStart
  \/ ScriptCheckpoint
  \/ ScriptOverwrite
  \/ ScriptRestore
  \/ ScriptRead
  \/ ScriptEnd

NextCk ==
  /\ UNCHANGED outvars
  /\ CkStep

SpecCk == Init /\ [][NextCk]_vars

\* ----------------------------------------------------------------- search
\* find over the trees a populated workspace can hold: up to three entries
\* under the root, each a file or a directory of up to two files.
SegX == <<"x">>
SegXY == <<"x", "y">>
SegZ == <<"z">>
TopNames == {SegX, SegXY, SegZ}
SubNames == {SegX, SegZ}
FindPaths == {<<n>> : n \in TopNames} \cup {<<n, k>> : n \in TopNames, k \in SubNames}

TreeOf(kind) ==
  [p \in {Root} \cup {q \in FindPaths : kind[q] # "none"} |->
     IF p = Root \/ kind[p] = "dir" THEN "dir" ELSE "A"]

FindTrees ==
  {TreeOf(kind) : kind \in
     {k \in [FindPaths -> {"none", "file", "dir"}] :
        \A q \in FindPaths :
          Len(q) = 2 => /\ k[q] # "dir"
                        /\ k[q] = "file" => k[Parent(q)] = "dir"}}

Orders ==
  {o \in [1..3 -> TopNames] : \A i, j \in 1..3 : o[i] = o[j] => i = j}

Patterns == {<<"x", "*">>, <<"?">>}
StartPaths == {RootPath, [abs |-> FALSE, segs |-> <<Dot>>], [abs |-> TRUE, segs |-> <<SegX>>]}

\* workspace "a" has been created and is current; its tree has been written
InitFind ==
  /\ nsStore = {[id |-> 1, name |-> "a", type |-> "WORKSPACE"]}
  /\ nextNs = 2
  /\ tracked = [m \in Mgrs |-> IF m = 0 THEN <<WorkspaceInfo(1, "a")>> ELSE <<>>]
  /\ cur = [m \in Mgrs |-> IF m = 0 THEN 1 ELSE None]
  /\ initialized = [m \in Mgrs |-> m = 0]
  /\ lock = [m \in Mgrs |-> [holder |-> NoTask, waiters |-> <<>>]]
  /\ pc = [t \in Tasks |-> "idle"]
  /\ loc = [t \in Tasks |-> NoLoc]
  /\ call = [t \in Tasks |-> NoCall]
  /\ \E tr \in FindTrees : fs = [id \in NsIds |-> IF id = 1 THEN tr ELSE EmptyTree]
  /\ snap = [n \in Names |-> NoMgr]
  /\ script = NoScript
  /\ found = NoFound
  /\ reply = NoReply

NextFind ==
  /\ \E pat \in Patterns, p \in StartPaths, max \in 1..(MaxResults + 1), o \in Orders :
       Find(Caller, pat, p, max, o)
  /\ UNCHANGED <<ckvars, reply>>

SpecFind == InitFind /\ [][NextFind]_vars

\* ------------------------------------------------------------------- grep
\* grep over the trees of a workspace that holds /x, a file or a directory
\* of up to two files, and perhaps a file /z.
GrepPaths == {<<SegX>>, <<SegZ>>, <<SegX, SegX>>, <<SegX, SegZ>>}

GrepTrees ==
  {[p \in {Root} \cup {q \in GrepPaths : kind[q] # "none"} |->
      IF p = Root THEN "dir" ELSE kind[p]] : kind \in
     {k \in [GrepPaths -> {"none", "dir"} \cup Contents] :
        \A q \in GrepPaths :
          /\ Len(q) = 2 => k[q] # "dir" /\ (k[q] # "none" => k[Parent(q)] = "dir")
          /\ q = <<SegZ>> => k[q] # "dir"}}

Files(tr) == {q \in DOMAIN tr : tr[q] # "dir"}

GrepPatterns == {<<"p">>, <<"q">>}
GrepStarts == {RootPath, [abs |-> FALSE, segs |-> <<SegX>>]}

\* a workspace that has been created, is current, and holds one of the trees
Populated(trees) ==
  /\ nsStore = {[id |-> 1, name |-> "a", type |-> "WORKSPACE"]}
  /\ nextNs = 2
  /\ tracked = [m \in Mgrs |-> IF m = 0 THEN <<WorkspaceInfo(1, "a")>> ELSE <<>>]
  /\ cur = [m \in Mgrs |-> IF m = 0 THEN 1 ELSE None]
  /\ initialized = [m \in Mgrs |-> m = 0]
  /\ lock = [m \in Mgrs |-> [holder |-> NoTask, waiters |-> <<>>]]
  /\ pc = [t \in Tasks |-> "idle"]
  /\ loc = [t \in Tasks |-> NoLoc]
  /\ call = [t \in Tasks |-> NoCall]
  /\ \E tr \in trees : fs = [id \in NsIds |-> IF id = 1 THEN tr ELSE EmptyTree]
  /\ snap = [n \in Names |-> NoMgr]
  /\ script = NoScript
  /\ found = NoFound
  /\ reply = NoReply

InitGrep == Populated(GrepTrees)

NextGrep ==
  /\ \E pat \in GrepPatterns, p \in GrepStarts, max \in 1..MaxResults,
        o \in Orders, bad \in SUBSET Files(fs[1]) :
       Grep(Caller, pat, p, max, o, bad)
  /\ UNCHANGED <<ckvars, found>>

SpecGrep == InitGrep /\ [][NextGrep]_vars

\* ------------------------------------------------------------------- tree
InitTree == Populated(FindTrees)

NextTree ==
  /\ \E p \in StartPaths, d \in 0..MaxTreeDepth, o \in Orders : Tree(Caller, p, d, o)
  /\ UNCHANGED <<ckvars, found>>

SpecTree == InitTree /\ [][NextTree]_vars

\* ------------------------------------------------------------------ files
\* One caller works in one workspace: it makes directories, writes, removes
\* and changes directory.  `reply` keeps what the last call was given and the
\* tree it found.
FilePaths ==
  {[abs |-> TRUE, segs |-> <<SegD>>], [abs |-> TRUE, segs |-> <<SegF>>],
   [abs |-> TRUE, segs |-> <<SegD, SegF>>],
   [abs |-> FALSE, segs |-> <<SegD>>], [abs |-> FALSE, segs |-> <<SegF>>]}

Asked(op, p, arg) ==
  [op |-> op, path |-> ResolvePath(0, p), arg |-> arg, before |-> fs[cur[0]]]

InitFiles == Populated({EmptyTree})

NextFiles ==
  /\ \/ \E p \in FilePaths :
          /\ Mkdir(Caller, p)
          /\ reply' = Asked("mkdir", p, "")
     \/ \E p \in FilePaths, c \in Contents \cup {Rejected} :
          /\ Len(ResolvePath(0, p)) <= MaxDepth
          /\ Write(Caller, p, c)
          /\ reply' = Asked("write", p, c)
     \/ \E p \in FilePaths, recursive \in BOOLEAN :
          /\ Rm(Caller, p, recursive)
          /\ reply' = Asked("rm", p, recursive)
     \/ \E p \in FilePaths \cup {RootPath} :
          /\ Cd(Caller, p)
          /\ reply' = Asked("cd", p, "")
     \/ CdResume(Caller) /\ reply' = reply
  /\ UNCHANGED <<ckvars, found>>

SpecFiles == InitFiles /\ [][NextFiles]_vars

\* ---------------------------------------------------------------- resolve
\* resolve_path in a workspace whose current directory is /, /d or /d/f
Chars == {"/", "d", "."}
Strings == UNION {[1..n -> Chars] : n \in 0..MaxPathLen}
CurDirs == {Root, <<SegD>>, <<SegD, SegF>>}

InitResolve ==
  /\ nsStore = {[id |-> 1, name |-> "a", type |-> "WORKSPACE"]}
  /\ nextNs = 2
  /\ \E cp \in CurDirs :
       /\ tracked = [m \in Mgrs |->
            IF m = 0 THEN <<[WorkspaceInfo(1, "a") EXCEPT !.current_path = cp]>>
            ELSE <<>>]
       /\ fs = [id \in NsIds |->
            IF id = 1 THEN [q \in {SubSeq(cp, 1, k) : k \in 0..Len(cp)} |-> "dir"]
            ELSE EmptyTree]
  /\ cur = [m \in Mgrs |-> IF m = 0 THEN 1 ELSE None]
  /\ initialized = [m \in Mgrs |-> m = 0]
  /\ lock = [m \in Mgrs |-> [holder |-> NoTask, waiters |-> <<>>]]
  /\ pc = [t \in Tasks |-> "idle"]
  /\ loc = [t \in Tasks |-> NoLoc]
  /\ call = [t \in Tasks |-> NoCall]
  /\ snap = [n \in Names |-> NoMgr]
  /\ script = NoScript
  /\ found = NoFound
  /\ reply = NoReply

NextResolve ==
  /\ \E path \in Strings : Resolve(Caller, path)
  /\ UNCHANGED <<ckvars, found>>

SpecResolve == InitResolve /\ [][NextResolve]_vars

\* ------------------------------------------------- directories and files
\* One caller makes directories, writes files and changes directory while
\* another creates workspaces and switches between them.
NextCd ==
  /\ \/ \E p \in NavPaths : Mkdir(<<0, 1>>, p)
     \/ \E p \in NavPaths : WriteStart(<<0, 1>>, p, "A")
     \/ WriteResume(<<0, 1>>, "A")
     \/ \E p \in NavPaths : Cd(<<0, 1>>, p)
     \/ CdResume(<<0, 1>>)
     \/ \E n \in Names : CreateWorkspace(<<0, 2>>, n)
     \/ StoreCreateNamespace(<<0, 2>>)
     \/ CreateRegister(<<0, 2>>)
     \/ \E n \in Names : SwitchWorkspace(<<0, 2>>, n)
  /\ UNCHANGED <<ckvars, outvars>>

SpecCd == Init /\ [][NextCd]_vars

\* ------------------------------------------------------ mount and unmount
\* One caller creates, switches, destroys, mounts and unmounts workspaces.
NextMount ==
  \/ /\ SoloStep(Caller)
     /\ reply' = NoReply
     /\ UNCHANGED <<ckvars, found>>
  \/ /\ \/ \E n \in Names \cup {""}, mp \in MountDirs \cup {None} :
             WorkspaceMount(Caller, n, mp)
        \/ \E n \in Names \cup {""} : WorkspaceUnmount(Caller, n)
     /\ UNCHANGED <<ckvars, found>>

SpecMount == Init /\ [][NextMount]_vars

\* the paths given to the calls that change files
ToolSource == [abs |-> TRUE, segs |-> <<SegD>>]
ToolDest == [abs |-> TRUE, segs |-> <<SegF>>]

\* --------------------------------------------------- workspaces side by side
\* A manager starts on a store in which other instances have left two
\* workspaces, of the same name or not.  Its caller lists, switches and
\* destroys workspaces, changes files and takes and restores checkpoints.
InitIso ==
  /\ \E n \in Names :
       nsStore = {[id |-> 1, name |-> "a", type |-> "WORKSPACE"],
                  [id |-> 2, name |-> n, type |-> "WORKSPACE"]}
  /\ nextNs = 3
  /\ tracked = [m \in Mgrs |-> <<>>]
  /\ cur = [m \in Mgrs |-> None]
  /\ initialized = [m \in Mgrs |-> FALSE]
  /\ lock = [m \in Mgrs |-> [holder |-> NoTask, waiters |-> <<>>]]
  /\ pc = [t \in Tasks |-> "idle"]
  /\ loc = [t \in Tasks |-> NoLoc]
  /\ call = [t \in Tasks |-> NoCall]
  /\ fs = [id \in NsIds |-> EmptyTree]
  /\ snap = [n \in Names |-> NoMgr]
  /\ script = NoScript
  /\ found = NoFound
  /\ reply = NoReply

NextIso ==
  \/ /\ \/ WorkspaceList(Caller)
        \/ \E n \in Names : SwitchWorkspace(Caller, n)
        \/ \E n \in Names : DestroyWorkspace(Caller, n)
        \/ StoreDestroyNamespace(Caller)
        \/ DestroyRegister(Caller)
        \/ Mkdir(Caller, ToolSource)
        \/ Write(Caller, ToolDest, "A")
        \/ Rm(Caller, ToolSource, TRUE)
        \/ Mv(Caller, ToolSource, ToolDest)
        \/ Cp(Caller, ToolSource, ToolDest)
     /\ UNCHANGED <<ckvars, outvars>>
  \/ /\ \/ \E ck \in CkNames : CheckpointCreate(Caller, ck)
        \/ \E ck \in CkNames : CheckpointRestore(Caller, ck)
     /\ UNCHANGED <<script, outvars>>

SpecIso == InitIso /\ [][NextIso]_vars

\* ------------------------------------------------------ every tool in turn
\* One caller creates, switches and destroys workspaces and calls every file,
\* navigation, search and checkpoint tool, with and without a current
\* workspace.
ToolPaths == {[abs |-> TRUE, segs |-> <<SegD>>], [abs |-> FALSE, segs |-> <<SegF>>]}
ToolOrder == CHOOSE o \in Orders : o[1] = SegX /\ o[2] = SegXY

ToolStep(t) ==
  \/ \E p \in ToolPaths : ReadFile(t, p)
  \/ Write(t, ToolSource, "A")
  \/ \E p \in ToolPaths : ListDirectory(t, p)
  \/ Mkdir(t, ToolSource)
  \/ Rm(t, ToolSource, TRUE)
  \/ Mv(t, ToolSource, ToolDest)
  \/ Cp(t, ToolSource, ToolDest)
  \/ \E p \in ToolPaths : Cd(t, p)
  \/ CdResume(t)
  \/ Pwd(t)

\* the workspace calls of this caller, all for one name
ToolName == "a"

WorkspaceStep(t) ==
  \/ nextNs <= MaxToolNs /\ CreateWorkspace(t, ToolName)
  \/ StoreCreateNamespace(t)
  \/ CreateRegister(t)
  \/ DestroyWorkspace(t, ToolName)
  \/ StoreDestroyNamespace(t)
  \/ DestroyRegister(t)
  \/ SwitchWorkspace(t, ToolName)
  \/ WorkspaceList(t)

\* only the response of the last call is kept
NextTools ==
  \/ /\ \/ WorkspaceStep(Caller)
        \/ ToolStep(Caller)
     /\ found' = NoFound /\ reply' = NoReply
     /\ UNCHANGED ckvars
  \/ /\ \E p \in ToolPaths : Find(Caller, <<"?">>, p, 1, ToolOrder)
     /\ reply' = NoReply
     /\ UNCHANGED ckvars
  \/ /\ \/ \E p \in ToolPaths : Grep(Caller, <<"q">>, p, 1, ToolOrder, {})
        \/ \E p \in ToolPaths : Tree(Caller, p, 1, ToolOrder)
     /\ found' = NoFound
     /\ UNCHANGED ckvars
  \/ /\ \/ \E ck \in CkNames : CheckpointCreate(Caller, ck)
        \/ \E ck \in CkNames : CheckpointRestore(Caller, ck)
        \/ \E ck \in CkNames : CheckpointDelete(Caller, ck)
        \/ CheckpointList(Caller)
     /\ found' = NoFound /\ reply' = NoReply
     /\ script' = script

SpecTools == Init /\ [][NextTools]_vars

\* ================================================================ claims
Tracks(m, n) == \E i \in DOMAIN tracked[m] : tracked[m][i].name = n
Records(m, n) == {i \in DOMAIN tracked[m] : tracked[m][i].name = n}
Ids(d) == {d[i].id : i \in DOMAIN d}

\* the step in which t's create(n) runs its uniqueness check
CreateChecks(t, n) ==
  /\ pc[t] \in {"idle", "create_wait"}
  /\ pc'[t] \in {"idle", "create_ns"}
  /\ call'[t].op = "create"
  /\ call'[t].name = n
  /\ pc[t] = "idle" => call'[t] # call[t] \/ pc'[t] # pc[t]

\* C1: create(name) of a name that is already tracked fails with NameConflict
\* and leaves the tracked records, the current pointer and the store's
\* allocations as they were.
C1_DuplicateCreateFails ==
  [][\A t \in LocalTasks, n \in Names :
       CreateChecks(t, n) /\ Tracks(MgrOf(t), n)
       => /\ call'[t].res = "NameConflict"
          /\ pc'[t] = "idle"
          /\ tracked' = tracked
          /\ cur' = cur
          /\ nsStore' = nsStore
          /\ nextNs' = nextNs]_vars

C1_Witness ==
  \E t \in LocalTasks :
    /\ call[t].op = "create"
    /\ call[t].res = "NameConflict"
    /\ Tracks(0, call[t].name)

\* C2: the current-workspace pointer is null or the handle of a tracked record.
C2_PointerTracked ==
  \A m \in Mgrs : cur[m] = None \/ cur[m] \in Ids(tracked[m])

C2_Witness ==
  \E t \in LocalTasks :
    /\ call[t].op = "destroy"
    /\ call[t].res = "ok"
    /\ cur[0] # None
    /\ cur[0] \in Ids(tracked[0])

\* C3: destroying the current workspace leaves the pointer on exactly one of
\* the remaining records, or null when none remain, and then getInfo() with
\* no name fails with NoCurrentWorkspace.
C3_DestroyCurrent ==
  [][\A t \in LocalTasks :
       /\ pc[t] = "destroy_reg"
       /\ pc'[t] = "idle"
       /\ call'[t].res = "ok"
       /\ cur[MgrOf(t)] = loc[t].ns
       => LET m == MgrOf(t) IN
          IF tracked'[m] # <<>>
          THEN /\ Cardinality({i \in DOMAIN tracked'[m] :
                                 tracked'[m][i].id = cur'[m]}) = 1
               /\ cur'[m] # loc[t].ns
          ELSE /\ cur'[m] = None
               /\ GetWorkspaceInfo(m, "")' = "NoCurrentWorkspace"]_vars

C3_Witness ==
  \E t \in LocalTasks :
    /\ pc[t] = "destroy_reg"
    /\ ~loc[t].err
    /\ cur[0] = loc[t].ns
    /\ Len(tracked[0]) >= 2

\* C4: no two tracked records of a manager have the same name.
C4_NamesUnique ==
  \A m \in Mgrs : \A i, j \in DOMAIN tracked[m] :
    tracked[m][i].name = tracked[m][j].name => i = j

\* C5: of the concurrent create calls for one name exactly one succeeds, the
\* others fail with NameConflict, and exactly one record of that name is
\* tracked afterwards (the store raising in none of them).
Creators(n) == {t \in LocalTasks : call[t].op = "create" /\ call[t].name = n}

C5_OneCreateWins ==
  \A n \in Names :
    /\ Cardinality(Creators(n)) >= 2
    /\ \A t \in Creators(n) : pc[t] = "idle" /\ call[t].res # "StoreError"
    => /\ Cardinality({t \in Creators(n) : call[t].res = "ok"}) = 1
       /\ \A t \in Creators(n) : call[t].res \in {"ok", "NameConflict"}
       /\ Cardinality(Records(0, n)) = 1

C5_Witness ==
  \E t, u \in LocalTasks :
    /\ t # u
    /\ pc[t] = "idle" /\ call[t].op = "create" /\ call[t].res = "ok"
    /\ pc[u] = "idle" /\ call[u].op = "create" /\ call[u].res = "NameConflict"
    /\ call[u].name = call[t].name
    /\ lock[0].holder = NoTask

\* C6: a path that cd stores as a workspace's current_path is an existing
\* directory of that workspace's own file tree when it is stored.
C6_CdSetsOwnDirectory ==
  [][\A i \in DOMAIN tracked'[0] :
       LET r == tracked'[0][i] IN
       /\ Has(tracked[0], r.id)
       /\ DictGet(tracked[0], r.id).current_path # r.current_path
       => NodeInfo(fs'[r.id], r.current_path) = "dir"]_vars

\* C7: when a caller has written A to a path, taken a checkpoint, written B to
\* the path and restored that checkpoint, each step succeeding, a read of the
\* path returns A.
C7_RestoreReadsA == script.step = 5 => script.read = script.a

\* C8: the checkpoints listed while a workspace is current were all created
\* while that same workspace was current.
C8_ListedAreOwn ==
  \A i \in DOMAIN tracked[0] :
    LET r == tracked[0][i] IN
    cur[0] = r.id => \A k \in DOMAIN snap[r.name].shots :
                       snap[r.name].shots[k].ws = r.id

\* C9: the snapshot manager kept for a tracked workspace wraps that
\* workspace's own VFS.
C9_HandleWrapsOwnVfs ==
  \A i \in DOMAIN tracked[0] :
    LET r == tracked[0][i] IN
    CachedManager(0, r.name) # NoMgr => CachedManager(0, r.name).vfs = r.id

\* C10: a find over a directory whose subtree holds more entries with a
\* matching name than max_results returns exactly max_results matches and
\* truncated = true; no find returns more than max_results matches.
Matching(tr, rp, pat) ==
  {q \in DOMAIN tr : /\ Len(q) > Len(rp)
                      /\ SubSeq(q, 1, Len(rp)) = rp
                      /\ Glob(q[Len(q)], pat)}

C10_FindTruncates ==
  found.res = "ok" =>
    /\ Len(found.matches) <= found.max
    /\ Cardinality(Matching(fs[cur[0]], found.path, found.pattern)) > found.max
       => Len(found.matches) = found.max /\ found.truncated

C10_Witness ==
  /\ found.res = "ok"
  /\ NodeInfo(fs[cur[0]], found.path) = "dir"
  /\ Cardinality(Matching(fs[cur[0]], found.path, found.pattern)) > found.max
  /\ Len(found.matches) = found.max
  /\ found.truncated

\* C11: a find over a directory whose subtree holds no more entries with a
\* matching name than max_results returns every one of them and
\* truncated = false.
C11_FindComplete ==
  /\ found.res = "ok"
  /\ NodeInfo(fs[cur[0]], found.path) = "dir"
  /\ Cardinality(Matching(fs[cur[0]], found.path, found.pattern)) <= found.max
  => /\ {found.matches[i] : i \in DOMAIN found.matches}
          = Matching(fs[cur[0]], found.path, found.pattern)
     /\ Len(found.matches)
          = Cardinality(Matching(fs[cur[0]], found.path, found.pattern))
     /\ ~found.truncated

\* the matching lines of the readable files that a grep searches
Hits(tr, rp, bad, pat) ==
  {[file |-> f, line |-> i] :
     f \in {g \in Files(tr) \ bad : Len(g) >= Len(rp) /\ SubSeq(g, 1, Len(rp)) = rp},
     i \in 1..3} \cap
  {h \in [file : Files(tr), line : 1..3] :
     /\ h.line <= Len(Text(tr[h.file]))
     /\ Contains(Text(tr[h.file])[h.line], pat)}

Returned(ms) == {[file |-> ms[i].file, line |-> ms[i].line] : i \in DOMAIN ms}

\* C12: grep returns at most max_results records, and truncated is true only
\* when some matching line of the searched files is not among the records.
C12_GrepTruncatedOnlyWhenCut ==
  reply.op = "grep" /\ reply.res = "ok" =>
    /\ Len(reply.matches) <= reply.max
    /\ reply.truncated =>
         Hits(fs[cur[0]], reply.path, reply.bad, reply.pattern)
           \ Returned(reply.matches) # {}

ChildrenOf(tr, p) == {q \in DOMAIN tr : Len(q) = Len(p) + 1 /\ Parent(q) = p}

\* the number of levels of a tree node
RECURSIVE Levels(_)
Levels(node) ==
  IF node.children = <<>> THEN 1
  ELSE 1 + CHOOSE k \in 0..(MaxTreeDepth + 3) :
             /\ \A i \in DOMAIN node.children : Levels(node.children[i]) <= k
             /\ \E i \in DOMAIN node.children : Levels(node.children[i]) = k

\* a node of the response that stands for path p at the given depth
RECURSIVE Conforms(_, _, _, _, _)
Conforms(node, tr, p, depth, max_depth) ==
  IF depth = max_depth + 1
  THEN node.truncated /\ node.children = <<>>
  ELSE IF NodeInfo(tr, p) # "dir" THEN node.children = <<>> /\ ~node.truncated
  ELSE /\ ~node.truncated
       /\ node.type = "directory"
       /\ Len(node.children) = Cardinality(ChildrenOf(tr, p))
       /\ depth < max_depth =>
            {Append(p, node.children[i].name) : i \in DOMAIN node.children}
              = ChildrenOf(tr, p)
       /\ \A q \in ChildrenOf(tr, p) :
            \E i \in DOMAIN node.children :
              /\ depth < max_depth => node.children[i].name = q[Len(q)]
              /\ Conforms(node.children[i], tr, q, depth + 1, max_depth)

\* C14: in a tree response every directory at depth <= max_depth has one
\* child node per real child, every node at depth max_depth + 1 is a
\* truncated placeholder without children, and nothing lies deeper.
C14_TreeCutoff ==
  reply.op = "tree" /\ reply.res = "ok" =>
    /\ Conforms(reply.root, fs[cur[0]], reply.path, 0, reply.max_depth)
    /\ Levels(reply.root) <= reply.max_depth + 2

C14_Witness ==
  /\ reply.op = "tree" /\ reply.res = "ok"
  /\ reply.max_depth = 1
  /\ \E i \in DOMAIN reply.root.children :
       \E j \in DOMAIN reply.root.children[i].children :
         reply.root.children[i].children[j].truncated

\* the last call of the caller: the tool, its outcome, what it was given
Last(op, res) ==
  /\ pc[Caller] = "idle"
  /\ call[Caller].op = op /\ call[Caller].res = res
  /\ reply.op = op

\* C15: rm without recursive on a directory fails with InvalidOperation and
\* leaves the directory and everything below it as it was.
C15_RmDirectoryGuard ==
  /\ pc[Caller] = "idle" /\ call[Caller].op = "rm" /\ reply.op = "rm"
  /\ reply.arg = FALSE
  /\ NodeInfo(reply.before, reply.path) = "dir"
  => /\ call[Caller].res = "InvalidOperation"
     /\ fs[cur[0]] = reply.before

C15_Witness ==
  /\ Last("rm", "InvalidOperation")
  /\ reply.arg = FALSE
  /\ Subtree(fs[cur[0]], reply.path) # {reply.path}

\* C16: rm with recursive on a directory that has entries reports success and
\* leaves neither the directory nor anything below it.
C16_RmRecursive ==
  /\ pc[Caller] = "idle" /\ call[Caller].op = "rm" /\ reply.op = "rm"
  /\ reply.arg = TRUE
  /\ NodeInfo(reply.before, reply.path) = "dir"
  /\ Subtree(reply.before, reply.path) # {reply.path}
  => /\ call[Caller].res = "ok"
     /\ Subtree(fs[cur[0]], reply.path) = {}

\* the directories above a path, the root left out
Ancestors(p) == {SubSeq(p, 1, k) : k \in 1..(Len(p) - 1)}

\* C17: after a successful write every ancestor of the path is a directory,
\* what existed before is as it was, and nothing but missing ancestors and
\* the file itself has appeared.
C17_WriteMakesAncestors ==
  Last("write", "ok") =>
    /\ \A q \in Ancestors(reply.path) : NodeInfo(fs[cur[0]], q) = "dir"
    /\ \A q \in DOMAIN reply.before \ {reply.path} :
         q \in DOMAIN fs[cur[0]] /\ fs[cur[0]][q] = reply.before[q]
    /\ DOMAIN fs[cur[0]] \ DOMAIN reply.before
         \subseteq Ancestors(reply.path) \cup {reply.path}

\* C18: after a successful write a read of the same path, absolute or
\* relative to the same current directory, returns the content written.
C18_WriteThenRead ==
  Last("write", "ok") => Read(0, call[Caller].path) = reply.arg

\* a relative path written plainly: names with single separators between
Plain(path) ==
  /\ path # <<>>
  /\ path[1] # "/" /\ path[Len(path)] # "/"
  /\ \A i \in DOMAIN path : path[i] # "."
  /\ \A i \in 1..(Len(path) - 1) : path[i] = "/" => path[i + 1] # "/"

\* C19: resolve_path returns a path that starts with the separator as it is;
\* any other path comes back as the current path followed by the path's
\* parts, which for a plainly written path is current + "/" + path, or
\* "/" + path when the current path is the root; no state changes.
C19_ResolvePath ==
  reply.op = "resolve" =>
    /\ (reply.path # <<>> /\ reply.path[1] = "/") => reply.result = reply.path
    /\ ~(reply.path # <<>> /\ reply.path[1] = "/") =>
         /\ Parts(reply.result) = Parts(reply.current) \o Parts(reply.path)
         /\ reply.result[1] = "/"
         /\ Plain(reply.path) =>
              reply.result = IF reply.current = <<"/">>
                             THEN <<"/">> \o reply.path
                             ELSE reply.current \o <<"/">> \o reply.path
    /\ <<nsStore, nextNs, tracked, cur, initialized, lock, fs>> = reply.before

C19_Witness ==
  /\ reply.op = "resolve"
  /\ reply.current = <<"/", "d", "/", "f">>
  /\ reply.path = <<"d", "/", "d">>
  /\ reply.result = <<"/", "d", "/", "f", "/", "d", "/", "d">>

\* C20: when create(name) of manager 0 runs its uniqueness check, every
\* workspace of the store is tracked by manager 0, and a name that the store
\* already holds is turned down with NameConflict.
C20_CreateSeesStore ==
  [][\A n \in Names :
       CreateChecks(<<0, 1>>, n)
       => /\ {ns.id : ns \in nsStore} \subseteq Ids(tracked'[0])
          /\ (\E ns \in nsStore : ns.name = n) => call'[<<0, 1>>].res = "NameConflict"]_vars

\* C21: a successful create makes the new workspace current exactly when no
\* workspace is current as it registers; otherwise the pointer stays; the
\* new record has current_path "/" and is not mounted.
C21_CreateSetsCurrent ==
  [][\A t \in LocalTasks :
       /\ pc[t] = "create_reg"
       /\ pc'[t] = "idle"
       /\ call'[t].res = "ok"
       => LET m == MgrOf(t) IN
          /\ cur[m] = None => cur'[m] = loc[t].ns
          /\ cur[m] # None => cur'[m] = cur[m] /\ cur'[m] # loc[t].ns
          /\ Has(tracked'[m], loc[t].ns)
          /\ DictGet(tracked'[m], loc[t].ns).current_path = Root
          /\ ~DictGet(tracked'[m], loc[t].ns).is_mounted]_vars

C21_Witness ==
  \E t \in LocalTasks :
    /\ pc[t] = "idle" /\ call[t].op = "create" /\ call[t].res = "ok"
    /\ Len(tracked[0]) = 2
    /\ cur[0] = tracked[0][1].id
    /\ tracked[0][2].name = call[t].name

\* C22: switch to a tracked name points the manager at that record, which
\* getInfo() with no name then returns; switch to an untracked name fails
\* with NotFound and leaves the pointer where it was; the records stay.
C22_Switch ==
  [][\A t \in LocalTasks, n \in Names :
       /\ pc[t] = "idle"
       /\ call'[t] # call[t]
       /\ call'[t].op = "switch" /\ call'[t].name = n
       => LET m == MgrOf(t) IN
          /\ tracked' = tracked
          /\ IF Tracks(m, n)
             THEN /\ call'[t].res = "ok"
                  /\ Has(tracked[m], cur'[m])
                  /\ DictGet(tracked[m], cur'[m]).name = n
                  /\ GetWorkspaceInfo(m, "")' = DictGet(tracked[m], cur'[m])
             ELSE /\ call'[t].res = "NotFound"
                  /\ cur' = cur]_vars

C22_Witness ==
  \E t \in LocalTasks :
    /\ pc[t] = "idle" /\ call[t].op = "switch" /\ call[t].res = "ok"
    /\ Len(tracked[0]) = 2
    /\ cur[0] = tracked[0][2].id
    /\ tracked[0][2].name = call[t].name

\* C23: a file, navigation, search or checkpoint call made while no
\* workspace is current fails with NoCurrentWorkspace; it changes neither
\* the store, nor the manager, nor any file tree, nor the checkpoints.
ToolOps ==
  {"read", "write", "ls", "tree", "mkdir", "rm", "mv", "cp", "cd", "pwd", "find",
   "grep", "checkpoint_create", "checkpoint_restore", "checkpoint_delete",
   "checkpoint_list"}

C23_NoCurrentWorkspace ==
  [][/\ cur[0] = None
     /\ pc[Caller] = "idle"
     /\ call'[Caller].op \in ToolOps
     => /\ call'[Caller].res = "NoCurrentWorkspace"
        /\ pc'[Caller] = "idle"
        /\ UNCHANGED <<wsvars, fs, snap>>]_vars

C23_Witness ==
  /\ cur[0] = None
  /\ nextNs > 1
  /\ pc[Caller] = "idle"
  /\ call[Caller].op = "checkpoint_restore"
  /\ call[Caller].res = "NoCurrentWorkspace"

\* C24: restore and delete of a checkpoint id that was never taken in the
\* current workspace fail with NotFound and leave that workspace's file tree
\* and its checkpoint list as they were.
OwnShots(m) ==
  LET n == DictGet(tracked[m], cur[m]).name IN
  {k \in DOMAIN snap[n].shots : snap[n].shots[k].ws = cur[m]}

C24_UnknownCheckpoint ==
  [][\A ck \in CkNames :
       LET n == DictGet(tracked[0], cur[0]).name IN
       /\ script.step = 0 /\ script'.step = 0
       /\ pc[Caller] = "idle"
       /\ call'[Caller].op \in {"checkpoint_restore", "checkpoint_delete"}
       /\ call'[Caller].name = ck
       /\ cur[0] # None /\ Has(tracked[0], cur[0])
       /\ \A k \in OwnShots(0) : snap[n].shots[k].name # ck
       => /\ call'[Caller].res = "NotFound"
          /\ fs'[cur[0]] = fs[cur[0]]
          /\ snap'[n].shots = snap[n].shots]_vars

\* C25: a cd whose target was found missing or a file fails with
\* InvalidOperation; no workspace's current_path changes, so pwd answers
\* after it what it answered before.
C25_CdRefused ==
  [][\A t \in LocalTasks :
       /\ pc[t] = "cd_node" /\ pc'[t] = "idle"
       /\ loc[t].node \in {"none", "file"}
       => /\ call'[t].op = "cd" /\ call'[t].res = "InvalidOperation"
          /\ \A i \in DOMAIN tracked[0] :
               /\ i \in DOMAIN tracked'[0]
               /\ tracked'[0][i].current_path = tracked[0][i].current_path
          /\ tracked' = tracked
          /\ CurrentDirectory(0)' = CurrentDirectory(0)]_vars

C25_Witness ==
  /\ pc[<<0, 1>>] = "idle"
  /\ call[<<0, 1>>].op = "cd" /\ call[<<0, 1>>].res = "InvalidOperation"
  /\ Len(tracked[0]) = 2
  /\ cur[0] = tracked[0][2].id
  /\ NodeInfo(fs[cur[0]], <<SegD>>) = "file"
  /\ tracked[0][1].current_path = <<SegD>>
  /\ tracked[0][2].current_path = Root

\* C26: a mount of a workspace recorded as mounted answers success = false
\* and leaves is_mounted and mount_point as they were, whatever mount point
\* is asked for; an unmount of a workspace not recorded as mounted answers
\* success = false and leaves them as they were.
C26_MountRefused ==
  [][\A n \in Names \cup {""} :
       LET info == DictGet(tracked[0], InfoId(0, n)) IN
       /\ pc[Caller] = "idle"
       /\ call'[Caller].op \in {"mount", "unmount"}
       /\ call'[Caller].name = n
       /\ InfoError(0, n) = "ok"
       /\ info.is_mounted <=> call'[Caller].op = "mount"
       => /\ reply'.success = FALSE
          /\ tracked' = tracked
          /\ DictGet(tracked'[0], InfoId(0, n)).is_mounted = info.is_mounted
          /\ DictGet(tracked'[0], InfoId(0, n)).mount_point = info.mount_point]_vars

C26_Witness ==
  /\ reply.op = "mount"
  /\ ~reply.success
  /\ reply.asked = 2
  /\ reply.mount_point = 1
  /\ call[Caller].res = "refused"
  /\ InfoError(0, reply.name) = "ok"
  /\ DictGet(tracked[0], InfoId(0, reply.name)).mount_point = 1

\* C27: a write, mkdir, rm, mv, cp or checkpoint restore made while one
\* workspace is current leaves the file tree of every other tracked
\* workspace as it was.
C27_OtherTreesKept ==
  [][/\ pc[Caller] = "idle"
     /\ call'[Caller].op \in {"write", "mkdir", "rm", "mv", "cp", "checkpoint_restore"}
     => \A id \in Ids(tracked[0]) \ {cur[0]} : fs'[id] = fs[id]]_vars

C27_Witness ==
  /\ call[Caller].op = "checkpoint_restore" /\ call[Caller].res = "ok"
  /\ Len(tracked[0]) = 2
  /\ cur[0] = tracked[0][2].id
  /\ <<SegD>> \in DOMAIN fs[tracked[0][1].id]
  /\ <<SegD>> \notin DOMAIN fs[cur[0]]
  /\ <<SegF>> \in DOMAIN fs[cur[0]]

\* C28: a cd called while workspace A is current changes the current_path
\* of no workspace other than A.
C28_CdChangesOnlyOwn ==
  [][\A t \in LocalTasks :
       /\ pc[t] = "cd_node" /\ pc'[t] = "idle"
       => \A i \in DOMAIN tracked[0] :
            tracked[0][i].id # loc[t].ns
            => /\ i \in DOMAIN tracked'[0]
               /\ tracked'[0][i].current_path = tracked[0][i].current_path]_vars

\* C29 as stated: when the store fails during a create or a destroy, the
\* call fails with that error and the tracked map and the pointer are what
\* they were when the call was made.
C29_AsBeforeTheCall ==
  [][/\ pc[Caller] \in {"create_reg", "destroy_reg"}
     /\ loc[Caller].err
     /\ pc'[Caller] = "idle"
     => /\ call'[Caller].res = "StoreError"
        /\ tracked'[0] = loc[Caller].before.tracked
        /\ cur'[0] = loc[Caller].before.cur]_vars

\* C29: when the store fails during a create or a destroy, the call fails
\* with that error and registers and drops nothing.  After a failed destroy
\* the tracked map and the pointer are what they were when the call was
\* made; after a failed create they are what the call's own synchronization
\* left: the same, unless this was the manager's first synchronization, which
\* adds the store's workspaces and points a null pointer at the first.
C29_StoreFailure ==
  [][/\ pc[Caller] \in {"create_reg", "destroy_reg"}
     /\ loc[Caller].err
     /\ pc'[Caller] = "idle"
     => LET before == loc[Caller].before IN
        /\ call'[Caller].res = "StoreError"
        /\ tracked'[0] = tracked[0] /\ cur'[0] = cur[0]
        /\ pc[Caller] = "destroy_reg" \/ before.initialized
           => tracked[0] = before.tracked /\ cur[0] = before.cur
        /\ Len(before.tracked) <= Len(tracked[0])
        /\ \A i \in DOMAIN before.tracked : tracked[0][i] = before.tracked[i]
        /\ \A i \in DOMAIN tracked[0] \ DOMAIN before.tracked :
             Allocated(tracked[0][i].id)
        /\ cur[0] = IF before.cur = None /\ tracked[0] # <<>>
                    THEN FirstKey(tracked[0]) ELSE before.cur]_vars

C29_Witness ==
  /\ pc[Caller] = "idle"
  /\ call[Caller].op = "create" /\ call[Caller].res = "StoreError"
  /\ Len(tracked[0]) = 2
  /\ cur[0] = tracked[0][1].id
  /\ lock[0].holder = NoTask

\* C30: after a write that failed, the workspace's file tree is what it was
\* before the call; no directory made by that call remains.
C30_FailedWriteLeavesTree ==
  /\ reply.op = "write"
  /\ call[Caller].op = "write"
  /\ call[Caller].res # "ok"
  => fs[cur[0]] = reply.before

\* the callers of manager 0 that hold its lock, between the lock being taken
\* and the handler's end
InSection == {t \in LocalTasks : pc[t] \in {"create_ns", "create_reg", "destroy_ns", "destroy_reg"}}

InQueue(t) == \E i \in DOMAIN lock[0].waiters : lock[0].waiters[i] = t

C32_CallsComplete ==
  \A t \in LocalTasks :
    /\ (pc[t] # "idle") ~> (pc[t] = "idle" /\ call[t].res # "pending")
    /\ [](pc[t] = "idle" => lock[0].holder # t /\ ~InQueue(t))
    /\ []((\A u \in LocalTasks : pc[u] = "idle") => LockFree(0))

C32_Witness ==
  \E t, u \in LocalTasks :
    /\ pc[t] = "idle" /\ call[t].op = "create" /\ call[t].res = "StoreError"
    /\ pc[u] = "idle" /\ call[u].op = "destroy" /\ call[u].res = "NotFound"
    /\ lock[0].holder = NoTask /\ lock[0].waiters = <<>>

\* C33: a file operation makes no engine call on a namespace that the store
\* has released: when ls goes on to its get_node_info calls, the namespace
\* its handle was bound to is still allocated.
C33_NoCallAfterRelease ==
  [][\A t \in LocalTasks :
       pc[t] = "ls_info" /\ pc'[t] # "ls_info" => Allocated(loc[t].ns)]_vars

Importable == {ns \in nsStore : ns.type = "WORKSPACE" /\ ns.name # ""}

C35_FirstSync ==
  [][/\ ~initialized[0] /\ initialized'[0]
        => /\ Ids(tracked'[0]) = {ns.id : ns \in Importable}
           /\ Len(tracked'[0]) = Cardinality(Importable)
           /\ \A ns \in Importable :
                /\ DictGet(tracked'[0], ns.id).name = ns.name
                /\ DictGet(tracked'[0], ns.id).current_path = Root
           /\ IF Importable = {} THEN cur'[0] = None ELSE cur'[0] \in Ids(tracked'[0])
     /\ \A t \in LocalTasks :
          /\ initialized[0] /\ pc[t] = "idle" /\ call'[t] # call[t]
          /\ call'[t].op \in {"list", "create"}
          => tracked' = tracked /\ cur' = cur /\ initialized' = initialized]_vars

C35_Witness ==
  /\ initialized[0]
  /\ call[<<0, 1>>].op = "list"
  /\ Len(tracked[0]) = 1
  /\ cur[0] = 2
  /\ \E ns \in nsStore : ns.id = 1 /\ ns.type = "BLOB" /\ ns.name = "a"

\* C36: the ids that list_checkpoints returns for the current workspace are
\* pairwise distinct and are ids of checkpoints created in that workspace.
C36_ListedIds ==
  [][/\ pc[Caller] = "idle"
     /\ call'[Caller] # call[Caller]
     /\ call'[Caller].op = "checkpoint_list" /\ call'[Caller].res = "ok"
     => LET listed == ListCheckpoints(0)' IN
        /\ \A i, j \in DOMAIN listed : listed[i].name = listed[j].name => i = j
        /\ \A k \in DOMAIN listed : listed[k].ws = cur[0]]_vars

\* C37: a successful destroy(name) releases the namespace of the record it
\* found and no other, removes that record and no other, leaves every other
\* record as it was and, when the record was not the current one, the pointer
\* too; after it no record of that name is tracked, so that a create of the
\* name passes the uniqueness check.
C37_DestroyExact ==
  [][\A t \in LocalTasks :
       LET m == MgrOf(t) IN
       /\ pc[t] = "destroy_ns" /\ pc'[t] = "destroy_reg" /\ ~loc'[t].err
          => nsStore' = {ns \in nsStore : ns.id # loc[t].ns}
       /\ pc[t] = "destroy_reg" /\ pc'[t] = "idle" /\ call'[t].res = "ok"
          => /\ DictGet(tracked[m], loc[t].ns).name = loc[t].name
             /\ Ids(tracked'[m]) = Ids(tracked[m]) \ {loc[t].ns}
             /\ \A i \in DOMAIN tracked'[m] :
                  tracked'[m][i] = DictGet(tracked[m], tracked'[m][i].id)
             /\ cur[m] # loc[t].ns => cur'[m] = cur[m]
             /\ nsStore' = nsStore /\ ~Allocated(loc[t].ns)
             /\ \A i \in DOMAIN tracked'[m] : tracked'[m][i].name # loc[t].name]_vars

\* C38: the current_path of every tracked workspace names a directory that
\* exists in that workspace's file tree.
C38_CwdExists ==
  \A i \in DOMAIN tracked[0] :
    NodeInfo(fs[tracked[0][i].id], tracked[0][i].current_path) = "dir"

\* C39: every workspace record is mounted exactly when its mount_point is
\* not null.
C39_MountedIffMountPoint ==
  \A m \in Mgrs : \A i \in DOMAIN tracked[m] :
    tracked[m][i].is_mounted <=> tracked[m][i].mount_point # None

C39_Witness ==
  /\ reply.op = "unmount" /\ reply.success /\ reply.mount_point \in MountDirs
  /\ \E i, j \in DOMAIN tracked[0] :
       /\ tracked[0][i].is_mounted
       /\ tracked[0][i].mount_point = DefaultMountPoint(tracked[0][i].name)
       /\ tracked[0][j].name = reply.name
       /\ ~tracked[0][j].is_mounted /\ tracked[0][j].mount_point = None

\* C40: every path that find returns lies below the start path and its last
\* segment matches the pattern; no path is returned twice; the paths come in
\* depth-first pre-order of the engine's listing order, a directory before
\* what lies in it; and when fewer entries match than max_results, the paths
\* returned are all the matching entries below the start path, those inside
\* directories whose own name does not match included.
Pos(order, n) == CHOOSE i \in DOMAIN order : order[i] = n

Fork(a, b) ==
  CHOOSE k \in 1..Len(a) : /\ k <= Len(b)
                            /\ a[k] # b[k]
                            /\ \A j \in 1..(k - 1) : a[j] = b[j]

PreOrder(order, a, b) ==
  /\ a # b
  /\ ~Under(a, b)
  /\ Under(b, a) \/ Pos(order, a[Fork(a, b)]) < Pos(order, b[Fork(a, b)])

C40_FindSemantics ==
  found.res = "ok" /\ NodeInfo(fs[cur[0]], found.path) = "dir" =>
    LET all == Matching(fs[cur[0]], found.path, found.pattern)
        ms == found.matches IN
    /\ \A i \in DOMAIN ms : ms[i] \in all /\ ms[i] # found.path
    /\ \A i, j \in DOMAIN ms : i < j => PreOrder(found.order, ms[i], ms[j])
    /\ Cardinality(all) < found.max
       => {ms[i] : i \in DOMAIN ms} = all /\ Len(ms) = Cardinality(all)

C40_Witness ==
  /\ found.res = "ok"
  /\ found.path = Root
  /\ found.pattern = <<"x", "*">>
  /\ found.max = MaxResults + 1
  /\ found.order = <<SegZ, SegX, SegXY>>
  /\ found.matches = << <<SegZ, SegX>>, <<SegX>>, <<SegX, SegX>> >>
  /\ NodeInfo(fs[cur[0]], <<SegXY>>) = "none"

====
